---- MODULE Spec2Model ----
(***************************************************************************)
(* Model of the tag-suggestion engine of image-tag-editor                  *)
(* (src/src/main.py, class TagAutoCompleteApp): loading the weighted tag   *)
(* vocabulary, and ranking candidate tags for a query with a per-query     *)
(* cache.                                                                  *)
(*                                                                         *)
(* Python strings are modelled as sequences of one-character strings, so   *)
(* that lower(), strip(), find(), startswith(), split() and the            *)
(* lexicographic order used by sorted() are computed, not assumed.         *)
(***************************************************************************)
EXTENDS Integers, Sequences, FiniteSets, TLC

VARIABLES
    csv,              \* the tag source on disk: [exists, readable, lines]
    tag_db,           \* self.tag_db: the rows handed to process_tags_with_frequency
    all_tags,         \* self.all_tags
    all_tags_lower,   \* self.all_tags_lower
    tag_frequencies,  \* self.tag_frequencies (dict: tag -> weight)
    tag_cache,        \* self.tag_cache (dict: normalized query -> list)
    op,               \* the operation that ran last
    query,            \* argument of the last find_suggestions call
    suggestions,      \* value returned by the last find_suggestions call
    cache_hit,        \* whether that call logged "Cache hit"
    text,             \* self.tag_input.toPlainText()
    cursor_pos,       \* self.tag_input.textCursor().position()
    entry,            \* buffer, cursor and tag the last select_suggestion started from
    conv_tag,         \* a tag in storage form handed to convert_tag_for_display
    conv_display,     \* the value convert_tag_for_display returned for it
    conv_storage,     \* the value convert_tag_for_storage returned for conv_display
    macros,           \* MacroManager.macros (dict: name -> Macro)
    dlg,              \* the MacroManagerDialog: its fields and widgets
    ui,               \* what the dialog's last handler showed and started from
    imp,              \* file, result and starting point of the last import_macros call
    current_image_path, \* self.current_image_path
    current_index,    \* self.current_index
    image_list,       \* self.image_list
    description_input, \* self.description_input.toPlainText()
    text_cache,       \* self.text_cache (dict: image path -> tags and description)
    folder,           \* the image files of the folder on disk, sorted
    files,            \* the tag files on disk (dict: .txt path -> file)
    owner,            \* the image whose text the two fields were last filled with
    io_error,         \* whether the last handler reported an error saving tags
    timer_active,     \* self.suggestion_timer.isActive()
    suggestions_list, \* the tags held by the items of self.suggestions_list
    current_row       \* self.suggestions_list.currentRow()

indexVars == <<csv, tag_db, all_tags, all_tags_lower, tag_frequencies>>

rankVars == <<tag_cache, query, suggestions, cache_hit>>

editVars == <<text, cursor_pos, entry>>

convVars == <<conv_tag, conv_display, conv_storage>>

macroVars == <<macros, dlg, ui, imp>>

imageVars == <<current_image_path, current_index, image_list, description_input,
               text_cache, folder, files, owner, io_error>>

timerVars == <<timer_active, suggestions_list, current_row>>

vars == <<csv, tag_db, all_tags, all_tags_lower, tag_frequencies, tag_cache,
          op, query, suggestions, cache_hit, text, cursor_pos, entry,
          conv_tag, conv_display, conv_storage, macros, dlg, ui, imp,
          current_image_path, current_index, image_list, description_input,
          text_cache, folder, files, owner, io_error,
          timer_active, suggestions_list, current_row>>

----------------------------------------------------------------------------
(* Characters and strings                                                  *)

\* The characters used, listed in code-point order.
Chars ==
    << "\t", "\n", " ", "#", "+", ",", "-",
       "0", "1", "2", "3", "4", "5", "6", "7", "8", "9", ":",
       "A", "B", "C", "D", "E", "I", "N", "O", "P", "R", "S", "T", "_",
       "a", "b", "c", "d", "e", "f", "g", "h", "i", "l", "n", "o", "p", "r", "s",
       "t", "u", "w", "x", "y" >>

CharSet == {Chars[i] : i \in 1..Len(Chars)}

\* Position of a character in code-point order (only the order is used).
Ord == [c \in CharSet |-> CHOOSE i \in 1..Len(Chars) : Chars[i] = c]

Whitespace == {"\t", "\n", " "}

Digits == {"0", "1", "2", "3", "4", "5", "6", "7", "8", "9"}

DigitValue == [c \in Digits |-> Ord[c] - Ord["0"]]

Min(a, b) == IF a <= b THEN a ELSE b

Max(a, b) == IF a >= b THEN a ELSE b

\* str.lower() on one character
LowerChar(c) ==
    CASE c = "A" -> "a"
      [] c = "B" -> "b"
      [] c = "C" -> "c"
      [] c = "D" -> "d"
      [] c = "E" -> "e"
      [] c = "I" -> "i"
      [] c = "N" -> "n"
      [] c = "O" -> "o"
      [] c = "P" -> "p"
      [] c = "R" -> "r"
      [] c = "S" -> "s"
      [] c = "T" -> "t"
      [] OTHER   -> c

\* str.lower()
Lower(s) == [i \in 1..Len(s) |-> LowerChar(s[i])]

\* Variant of Strip that removes nothing
StripNothing(s) == s

\* str.strip(): drop leading and trailing whitespace
Strip(s) ==
    LET keep == {i \in 1..Len(s) : s[i] \notin Whitespace}
    IN  IF keep = {} THEN <<>>
        ELSE LET lo == CHOOSE i \in keep : \A j \in keep : i <= j
                 hi == CHOOSE i \in keep : \A j \in keep : i >= j
             IN  SubSeq(s, lo, hi)

\* str.startswith(q)
StartsWith(s, q) == Len(q) <= Len(s) /\ SubSeq(s, 1, Len(q)) = q

\* The 0-based positions at which q occurs in s.
Occurrences(s, q) ==
    {p \in 0..(Len(s) - Len(q)) : SubSeq(s, p + 1, p + Len(q)) = q}

\* Variant of Find that settles for the first character of q
FindFirstChar(s, q) ==
    LET occ == {p \in 0..(Len(s) - 1) : q # <<>> /\ s[p + 1] = q[1]}
    IN  IF occ = {} THEN -1
        ELSE CHOOSE p \in occ : \A r \in occ : p <= r

\* str.find(q): 0-based position of the first occurrence, -1 if none
Find(s, q) ==
    LET occ == Occurrences(s, q)
    IN  IF occ = {} THEN -1
        ELSE CHOOSE p \in occ : \A r \in occ : p <= r

\* str.isdigit()
IsDigit(s) == s # <<>> /\ \A i \in 1..Len(s) : s[i] \in Digits

\* int(s) for a string of decimal digits
RECURSIVE ParseInt(_)
ParseInt(s) ==
    IF s = <<>> THEN 0
    ELSE 10 * ParseInt(SubSeq(s, 1, Len(s) - 1)) + DigitValue[s[Len(s)]]

\* str.split(","): the pieces between commas, in order
RECURSIVE Split(_)
Split(s) ==
    LET commas == {i \in 1..Len(s) : s[i] = ","}
    IN  IF commas = {} THEN <<s>>
        ELSE LET k == CHOOSE i \in commas : \A j \in commas : i <= j
             IN  <<SubSeq(s, 1, k - 1)>> \o Split(SubSeq(s, k + 1, Len(s)))

\* Python's < on tuples of integers: lexicographic, a proper prefix first
TupleLess(a, b) ==
    LET n == Min(Len(a), Len(b))
        d == {i \in 1..n : a[i] # b[i]}
    IN  IF d = {} THEN Len(a) < Len(b)
        ELSE LET k == CHOOSE i \in d : \A j \in d : i <= j
             IN  a[k] < b[k]

\* The code points of a string, for comparing strings as Python does
Codes(s) == [i \in 1..Len(s) |-> Ord[s[i]]]

\* list.sort(key=...) / sorted(key=...): a stable sort of s, keys[i] being the
\* key of s[i].  The positions are sorted: a position goes first when its key
\* is smaller, or the keys are equal and it is the earlier one.
StableSort(s, keys) ==
    LET before(j, i) == TupleLess(keys[j], keys[i]) \/ (keys[j] = keys[i] /\ j < i)
        perm == SortSeq([i \in 1..Len(s) |-> i], before)
    IN  [k \in 1..Len(s) |-> s[perm[k]]]

----------------------------------------------------------------------------
(* Loading the tag database: _setup_data                                   *)

\* A dict keeps its keys in insertion order: order lists the keys and vals
\* their values, position by position.
EmptyDict == [order |-> <<>>, vals |-> <<>>]

DictKeys(d) == {d.order[i] : i \in 1..Len(d.order)}

DictGet(d, k) == d.vals[CHOOSE i \in 1..Len(d.order) : d.order[i] = k]

\* d[k] = v: a new key is appended, an existing key keeps its place
DictSet(d, k, v) ==
    IF k \in DictKeys(d)
    THEN [order |-> d.order,
          vals  |-> [d.vals EXCEPT ![CHOOSE i \in 1..Len(d.order) : d.order[i] = k] = v]]
    ELSE [order |-> Append(d.order, k), vals |-> Append(d.vals, v)]

\* The dict as a mapping from its keys to their values
DictMap(d) == [k \in DictKeys(d) |-> DictGet(d, k)]

\* A cell of the DataFrame that its row did not supply.
None == "None"

\* row.append("") while len(row) < 4
PadRow(row) ==
    row \o [i \in 1..Max(0, 4 - Len(row)) |-> <<>>]

\* pd.DataFrame(rows): every row gets the width of the widest one
DataFrame(rows) ==
    LET width == IF rows = <<>> THEN 0
                 ELSE CHOOSE w \in {Len(rows[i]) : i \in 1..Len(rows)} :
                          \A i \in 1..Len(rows) : Len(rows[i]) <= w
    IN  [i \in 1..Len(rows) |->
            [j \in 1..width |-> IF j <= Len(rows[i]) THEN rows[i][j] ELSE None]]

\* _manual_csv_parse: one row per line, padded to 4 columns.  A line is given
\* as the list of fields csv.reader yields for it.
manual_csv_parse(lines) ==
    DataFrame([i \in 1..Len(lines) |-> PadRow(lines[i])])

\* int(row.iloc[2]) if str(row.iloc[2]).isdigit() else 0
Frequency(row) == IF IsDigit(row[3]) THEN ParseInt(row[3]) ELSE 0

\* Variant of SetMainTag that keeps the weight a tag already has
SetMainTagIfAbsent(m, main_tag, frequency) ==
    IF main_tag \in DictKeys(m) THEN m ELSE DictSet(m, main_tag, frequency)

\* tag_freq_map[main_tag] = frequency
SetMainTag(m, main_tag, frequency) == DictSet(m, main_tag, frequency)

\* Variant of AltFrequency without the floor of 1
AltFrequencyNoFloor(base_freq) == base_freq \div 2

\* max(1, base_freq // 2)
AltFrequency(base_freq) == Max(1, base_freq \div 2)

\* for alt_tag in alternatives.split(","): add it unless already present
RECURSIVE AddAlternatives(_, _, _)
AddAlternatives(m, alts, base_freq) ==
    IF alts = <<>> THEN m
    ELSE LET alt_tag == Strip(Head(alts))
             m1 == IF alt_tag # <<>> /\ alt_tag \notin DictKeys(m)
                   THEN DictSet(m, alt_tag, AltFrequency(base_freq))
                   ELSE m
         IN  AddAlternatives(m1, Tail(alts), base_freq)

\* The body of the loop over df.iterrows()
ProcessRow(m, row) ==
    IF Len(row) < 3 THEN m
    ELSE LET main_tag == Strip(row[1])
             m1 == IF main_tag # <<>>
                   THEN SetMainTag(m, main_tag, Frequency(row))
                   ELSE m
         IN  IF Len(row) >= 4 /\ Strip(row[4]) # <<>>
             THEN AddAlternatives(m1, Split(Strip(row[4])), Frequency(row))
             ELSE m1

\* for _, row in df.iterrows(): the rows lo..hi applied in order to m.  The
\* range is walked as two halves; the test on left only makes the first half
\* be completed before the second is entered.
RECURSIVE ProcessRows(_, _, _, _)
ProcessRows(m, df, lo, hi) ==
    IF lo > hi THEN m
    ELSE IF lo = hi THEN ProcessRow(m, df[lo])
    ELSE LET mid  == (lo + hi) \div 2
             left == ProcessRows(m, df, lo, mid)
         IN  IF Len(left.order) >= 0
             THEN ProcessRows(left, df, mid + 1, hi)
             ELSE left

\* Variant of SortedTags without the alphabetical tie-break
SortedTagsByWeightOnly(m) ==
    StableSort(m.order, [i \in 1..Len(m.order) |-> <<-m.vals[i]>>])

\* sorted(tag_freq_map.keys(), key=lambda tag: (-tag_freq_map[tag], tag.lower()))
SortedTags(m) ==
    StableSort(m.order,
               [i \in 1..Len(m.order) |-> <<-m.vals[i]>> \o Codes(Lower(m.order[i]))])

\* process_tags_with_frequency: (sorted_tags, tag_freq_map)
process_tags_with_frequency(df) ==
    LET tag_freq_map == ProcessRows(EmptyDict, df, 1, Len(df))
    IN  [sorted_tags |-> SortedTags(tag_freq_map), tag_freq_map |-> DictMap(tag_freq_map)]

EmptyIndex ==
    [tag_db |-> <<>>, all_tags |-> <<>>, all_tags_lower |-> <<>>,
     tag_frequencies |-> <<>>]

\* Variant of setup_data that lowercases the tags in the order the rows gave
\* them instead of the sorted order
setup_data_lower_unsorted(c) ==
    IF ~c.exists THEN EmptyIndex
    ELSE IF ~c.readable THEN EmptyIndex
    ELSE LET df == manual_csv_parse(c.lines)
             r  == process_tags_with_frequency(df)
             m  == ProcessRows(EmptyDict, df, 1, Len(df))
         IN  [tag_db |-> df,
              all_tags |-> r.sorted_tags,
              all_tags_lower |-> [i \in 1..Len(m.order) |-> Lower(m.order[i])],
              tag_frequencies |-> r.tag_freq_map]

\* _setup_data, for the source c = [exists, readable, lines]
setup_data(c) ==
    IF ~c.exists THEN EmptyIndex
    ELSE IF ~c.readable THEN EmptyIndex   \* open() raised: the except branch
    ELSE LET df == manual_csv_parse(c.lines)
             r  == process_tags_with_frequency(df)
         IN  [tag_db |-> df,
              all_tags |-> r.sorted_tags,
              all_tags_lower |-> [i \in 1..Len(r.sorted_tags) |-> Lower(r.sorted_tags[i])],
              tag_frequencies |-> r.tag_freq_map]

----------------------------------------------------------------------------
(* Ranking: find_suggestions                                               *)

MAX_SUGGESTIONS == 7

\* The characters that make a match a word start
WordSeparators == {"_", "-", " ", ":"}

\* The branch of the if/elif/else that a tag takes for the query q
TierOf(lower_tag, q) ==
    IF lower_tag = q THEN "exact"
    ELSE IF StartsWith(lower_tag, q) THEN "prefix"
    ELSE LET pos == Find(lower_tag, q)
         IN  IF pos = -1 THEN "none"
             ELSE IF pos = 0 \/ lower_tag[pos] \in WordSeparators  \* lower_tag[pos - 1], 0-based
                  THEN "word_start"
                  ELSE "substring"

NoMatches ==
    [exact_matches |-> <<>>, prefix_matches |-> <<>>,
     word_start_matches |-> <<>>, substring_matches |-> <<>>]

\* One pass of the loop body up to the early-exit tests: file the tag under
\* its tier as (tag, frequency, match position, tag length).
Classify(m, orig_tag, lower_tag, frequency, q) ==
    LET tier == TierOf(lower_tag, q)
        e == [tag |-> orig_tag, freq |-> frequency,
              pos |-> Find(lower_tag, q), len |-> Len(orig_tag)]
    IN  CASE tier = "exact"      -> [m EXCEPT !.exact_matches = Append(@, e)]
          [] tier = "prefix"     -> [m EXCEPT !.prefix_matches = Append(@, e)]
          [] tier = "word_start" -> [m EXCEPT !.word_start_matches = Append(@, e)]
          [] tier = "substring"  -> [m EXCEPT !.substring_matches = Append(@, e)]
          [] OTHER               -> m

\* The two break conditions at the end of the loop body
EarlyExit(m) ==
    \/ Len(m.exact_matches) >= 2
    \/ Len(m.exact_matches) + Len(m.prefix_matches)
         + Len(m.word_start_matches) + Len(m.substring_matches)
       >= MAX_SUGGESTIONS * 8

\* self.tag_frequencies.get(tag, 0)
get_frequency(freqs, tag) == IF tag \in DOMAIN freqs THEN freqs[tag] ELSE 0

\* for i in range(len(self.all_tags)): the tags lo..hi scanned in order,
\* starting from the matches m, until a break.  The range is walked as two
\* halves, the first completed before the second; a break in the first half
\* shows as EarlyExit of its result, since the counts only grow.
\* shortCircuit = FALSE gives the scan of the whole index, without the breaks.
RECURSIVE Scan(_, _, _, _, _, _)
Scan(ix, q, m, lo, hi, shortCircuit) ==
    IF lo > hi THEN m
    ELSE IF lo = hi
    THEN Classify(m, ix.all_tags[lo], ix.all_tags_lower[lo],
                  get_frequency(ix.tag_frequencies, ix.all_tags[lo]), q)
    ELSE LET mid  == (lo + hi) \div 2
             left == Scan(ix, q, m, lo, mid, shortCircuit)
         IN  IF EarlyExit(left) /\ shortCircuit
             THEN left
             ELSE Scan(ix, q, left, mid + 1, hi, shortCircuit)

\* exact_matches.sort(key=lambda x: -x[1])
SortExact(s) == StableSort(s, [i \in 1..Len(s) |-> <<-s[i].freq>>])

\* Variant of SortPrefix that puts the least frequent first
SortPrefixAscending(s) == StableSort(s, [i \in 1..Len(s) |-> <<s[i].freq, s[i].len>>])

\* prefix_matches.sort(key=lambda x: (-x[1], x[2]))
SortPrefix(s) == StableSort(s, [i \in 1..Len(s) |-> <<-s[i].freq, s[i].len>>])

\* word_start_matches.sort / substring_matches.sort(key=lambda x: (-x[1], x[2], x[3]))
SortByPosition(s) ==
    StableSort(s, [i \in 1..Len(s) |-> <<-s[i].freq, s[i].pos, s[i].len>>])

TagsOf(s) == [i \in 1..Len(s) |-> s[i].tag]

\* Remove duplicates, keeping the first occurrence
Unique(s) ==
    LET firsts == {i \in 1..Len(s) : \A j \in 1..(i - 1) : s[j] # s[i]}
    IN  [k \in 1..Cardinality(firsts) |->
            s[CHOOSE i \in firsts : Cardinality({j \in firsts : j < i}) = k - 1]]

\* Variant of Truncate that keeps the whole list
TruncateNothing(s) == s

\* unique_results[:MAX_SUGGESTIONS]
Truncate(s) == SubSeq(s, 1, Min(Len(s), MAX_SUGGESTIONS))

\* The list computed for the normalized query q on a cache miss
Rank(ix, q, shortCircuit) ==
    LET m == Scan(ix, q, NoMatches, 1, Len(ix.all_tags), shortCircuit)
        all_results == TagsOf(SortExact(m.exact_matches))
                       \o TagsOf(SortPrefix(m.prefix_matches))
                       \o TagsOf(SortByPosition(m.word_start_matches))
                       \o TagsOf(SortByPosition(m.substring_matches))
    IN  Truncate(Unique(all_results))

\* Variant of Normalize that keeps the letter case
NormalizeKeepCase(qry) == Strip(qry)

\* query.lower().strip()
Normalize(qry) == Strip(Lower(qry))

\* find_suggestions(query): the returned list, the cache afterwards, and
\* whether the list came from the cache
find_suggestions(ix, cache, qry) ==
    LET q == Normalize(qry)
    IN  IF q = <<>> \/ ix.all_tags = <<>>
        THEN [ret |-> <<>>, cache |-> cache, hit |-> FALSE]
        ELSE IF q \in DOMAIN cache
        THEN [ret |-> cache[q], cache |-> cache, hit |-> TRUE]
        ELSE LET s == Rank(ix, q, TRUE)
             IN  [ret |-> s,
                  cache |-> [k \in DOMAIN cache \cup {q} |->
                                IF k = q THEN s ELSE cache[k]],
                  hit |-> FALSE]

----------------------------------------------------------------------------
(* Editing the tag buffer: get_current_tag_part, select_suggestion         *)

\* s[lo:hi], Python's slice with 0-based bounds 0 <= lo, hi
Slice(s, lo, hi) == SubSeq(s, lo + 1, Min(hi, Len(s)))

\* str.find(sep, lo): 0-based position of the first occurrence at or after lo
FindFrom(s, sep, lo) ==
    LET occ == {p \in Occurrences(s, sep) : p >= lo}
    IN  IF occ = {} THEN -1
        ELSE CHOOSE p \in occ : \A r \in occ : p <= r

\* Variant of RFind that looks through the whole string
RFindAnywhere(s, sep, lo, hi) ==
    LET occ == {p \in Occurrences(s, sep) : p >= lo}
    IN  IF occ = {} THEN -1
        ELSE CHOOSE p \in occ : \A r \in occ : p >= r

\* str.rfind(sep, lo, hi): 0-based position of the last occurrence within s[lo:hi]
RFind(s, sep, lo, hi) ==
    LET occ == {p \in Occurrences(s, sep) : p >= lo /\ p + Len(sep) <= Min(hi, Len(s))}
    IN  IF occ = {} THEN -1
        ELSE CHOOSE p \in occ : \A r \in occ : p >= r

\* get_current_tag_part for the buffer t and the cursor c: the bounds it
\* computes, the fragment between them, and the stripped fragment it returns
get_current_tag_part(t, c) ==
    LET left  == RFind(t, <<",">>, 0, c)
        right == FindFrom(t, <<",">>, c)
        start == IF left = -1 THEN 0 ELSE left + 1
        end   == IF right = -1 THEN Len(t) ELSE right
        fragment == Slice(t, start, end)
    IN  [start |-> start, end |-> end, fragment |-> fragment, ret |-> Strip(fragment)]

\* str.replace(a, b) for single characters a and b
Replace(s, a, b) == [i \in 1..Len(s) |-> IF s[i] = a THEN b ELSE s[i]]

\* convert_tag_for_display
convert_tag_for_display(tag) == Replace(Replace(tag, "_", " "), "+", " ")

\* Variant of convert_tag_for_storage that leaves the spaces in
convert_tag_for_storage_keep_spaces(display_tag) == Lower(display_tag)

\* convert_tag_for_storage
convert_tag_for_storage(display_tag) == Replace(Lower(display_tag), " ", "_")

\* separators = [',', ' ']
separators == << <<",">>, <<" ">> >>

\* The loop over separators that finds the left bound, started from left
RECURSIVE LeftBound(_, _, _, _)
LeftBound(t, c, k, left) ==
    IF k > Len(separators) THEN left
    ELSE LET pos == RFind(t, separators[k], 0, c)
         IN  LeftBound(t, c, k + 1, IF pos > left THEN pos ELSE left)

\* The loop over separators that finds the right bound, started from right
RECURSIVE RightBound(_, _, _, _)
RightBound(t, c, k, right) ==
    IF k > Len(separators) THEN right
    ELSE LET pos == FindFrom(t, separators[k], c)
         IN  RightBound(t, c, k + 1, IF pos # -1 /\ pos < right THEN pos ELSE right)

\* str.lstrip(" \t")
LStrip(s) ==
    LET keep == {i \in 1..Len(s) : s[i] \notin {" ", "\t"}}
    IN  IF keep = {} THEN <<>>
        ELSE SubSeq(s, CHOOSE i \in keep : \A j \in keep : i <= j, Len(s))

\* str.isspace() on one character
IsSpace(c) == c \in Whitespace

\* Variant of AddSeparator that always appends the separator
AddSeparatorAlways(suffix) == <<" ">>

\* add_separator, for the text after the replaced span
AddSeparator(suffix) ==
    IF Strip(suffix) = <<>> THEN <<" ">>
    ELSE IF suffix # <<>> /\ ~IsSpace(suffix[1]) THEN <<" ">>
    ELSE <<>>

\* Variant of LeadingWs that drops the leading whitespace
LeadingWsDropped(fragment) == <<>>

\* leading_ws: the whitespace the fragment starts with
LeadingWs(fragment) == SubSeq(fragment, 1, Len(fragment) - Len(LStrip(fragment)))

\* select_suggestion from the point where original_tag is known: the span it
\* replaces in the buffer t at the cursor c, the new buffer and the new cursor
select_suggestion(t, c, original_tag) ==
    LET left  == LeftBound(t, c, 1, -1)
        right == RightBound(t, c, 1, Len(t))
        start == IF left = -1 THEN 0 ELSE left + 1
        end   == right
        fragment == Slice(t, start, end)
        leading_ws == LeadingWs(fragment)
        prefix == Slice(t, 0, start)
        suffix == Slice(t, end, Len(t))
        display_tag == convert_tag_for_display(original_tag)
        add_separator == AddSeparator(suffix)
    IN  [start |-> start, end |-> end,
         new_text |-> prefix \o leading_ws \o display_tag \o add_separator \o suffix,
         new_cursor_pos |-> Len(prefix) + Len(leading_ws) + Len(display_tag)
                            + Len(add_separator)]

----------------------------------------------------------------------------
(* Inputs                                                                  *)

\* Longest tag source enumerated line by line
MaxLines == 2

\* The lines a small tag source is made of (tag, category, weight, alternates)
LinePool ==
    { <<<<"a", "b">>, <<"0">>, <<"1", "0">>>>,
      <<<<"A", "b">>, <<"0">>, <<"1", "0">>, <<"A", "B", ",", "a", "b", "c">>>>,
      <<<<"c", "_", "a", "b">>, <<"0">>, <<"7">>, <<"c", "a", "b", ",", " ", "c", "a", "b", "_", "a", "b">>>>,
      <<<<"a", "b", "c">>, <<"0">>, <<"x">>, <<"a", "b">>>>,
      <<<<"a", " ", "b">>, <<"0">>, <<"3">>, <<"a", "b", ",", "c", "_", "a", "b">>>>,
      <<<<"c", "a", "b">>>>,
      <<<<" ", "A", "B", " ">>, <<"0">>, <<"0", "4">>, <<" ", "a", "b", " ", ",", " ", ",", "a", "b", "c">>, <<"x">>>>,
      <<<<"b", "a">>, <<"1">>, <<"1">>, <<"b", "a", ",", "a", "b">>>> }

SmallFiles == UNION {[1..n -> LinePool] : n \in 0..MaxLines}

\* A source with more matches for "a" than the scan collects: every tag
\* "ca.." of weight 9 contains "a" inside a word, "a" and "ab" weigh 1.
BigSuffix == <<"a", "b", "c", "d", "e", "f", "h", "l">>

BigFile ==
    [k \in 1..(Len(BigSuffix) * Len(BigSuffix)) |->
        << <<"c", "a", BigSuffix[((k - 1) \div Len(BigSuffix)) + 1],
                       BigSuffix[((k - 1) % Len(BigSuffix)) + 1]>>,
           <<"0">>, <<"9">>, <<>> >>]
    \o << <<<<"a">>, <<"0">>, <<"1">>, <<>>>>,
          <<<<"a", "b">>, <<"0">>, <<"1">>, <<>>>> >>

\* The index of the ranking scenario: safe, saddle, santa_hat
ExampleFile ==
    << <<<<"s", "a", "f", "e">>, <<"0">>, <<"2", "2", "0", "4", "2", "5", "9">>, <<>>>>,
       <<<<"s", "a", "d", "d", "l", "e">>, <<"0">>, <<"5", "0", "0", "0">>, <<>>>>,
       <<<<"s", "a", "n", "t", "a", "_", "h", "a", "t">>, <<"0">>, <<"5", "0", "0", "0", "0">>, <<>>>> >>

Sources ==
    {[exists |-> FALSE, readable |-> FALSE, lines |-> <<>>],
     [exists |-> TRUE, readable |-> FALSE, lines |-> <<>>]}
    \cup {[exists |-> TRUE, readable |-> TRUE, lines |-> f] :
            f \in SmallFiles \cup {BigFile, ExampleFile}}

\* The queries typed
Queries ==
    { <<"a", "b">>,
      <<" ", "A", "b", "\t">>,
      <<"a">>,
      <<"s", "a">>,
      <<>>,
      <<" ">> }

\* Longest buffer enumerated character by character
MaxText == 3

\* Longest buffer a suggestion is accepted into
MaxBuffer == 6

\* The cursor positions the user moves to
MaxCursor == 3

\* The characters such a buffer is made of
EditChars == {"a", ",", " ", "\t"}

SmallTexts == UNION {[1..n -> EditChars] : n \in 0..MaxText}

\* The buffers the user edits: the small ones, a two-word fragment, and a
\* tag followed by a comma and a space
TextPool ==
    SmallTexts \cup { <<"o", "c", " ", "o", "n">>, <<"s", "a", "f", "e", ",", " ">> }

\* The tag source of the editing scenarios: oc only, rainbow_dash and a_b
EditFile ==
    << <<<<"o", "c", " ", "o", "n", "l", "y">>, <<"0">>, <<"9">>, <<>>>>,
       <<<<"r", "a", "i", "n", "b", "o", "w", "_", "d", "a", "s", "h">>, <<"0">>, <<"7">>, <<>>>>,
       <<<<"a", "_", "b">>, <<"0">>, <<"5">>, <<>>>> >>

EditSource == [exists |-> TRUE, readable |-> TRUE, lines |-> EditFile]

\* Longest tag handed to the conversions
MaxTag == 3

\* Characters of a tag in storage form: a lowercase letter, a digit, '_', '+'
StorageChars == {"a", "1", "_", "+"}

StorageTags == UNION {[1..n -> StorageChars] : n \in 0..MaxTag}

----------------------------------------------------------------------------
(* Macros: MacroManager and MacroManagerDialog (src/src/macro_system.py)   *)

\* None where the name of a macro is expected
NoMacro == <<None>>

\* A Macro, by the fields the manager and the dialog read and write; the
\* name is the key it is stored under.  created_date, last_used, hotkey and
\* category are carried along unchanged by every operation modelled here.
Macro(tags, description, use_count) ==
    [tags |-> tags, description |-> description, use_count |-> use_count]

\* self.macros with the entry of key name set to m
StoreSet(ms, name, m) ==
    [n \in DOMAIN ms \cup {name} |-> IF n = name THEN m ELSE ms[n]]

\* self.macros without the entry of key name
StoreDel(ms, name) == [n \in DOMAIN ms \ {name} |-> ms[n]]

\* update_macro that renames without looking at the existing names
update_macro_unchecked(ms, old_name, new_name, new_tags, new_description) ==
    IF old_name \notin DOMAIN ms
    THEN [ret |-> FALSE, macros |-> ms]
    ELSE [ret |-> TRUE,
          macros |-> StoreSet(StoreDel(ms, old_name), new_name,
                              [ms[old_name] EXCEPT !.tags = new_tags,
                                                   !.description = new_description])]

\* MacroManager.update_macro(old_name, new_name, tags, description): the
\* value returned and self.macros afterwards
update_macro(ms, old_name, new_name, new_tags, new_description) ==
    IF old_name \notin DOMAIN ms
    THEN [ret |-> FALSE, macros |-> ms]
    ELSE IF new_name # old_name /\ new_name \in DOMAIN ms
    THEN [ret |-> FALSE, macros |-> ms]
    ELSE [ret |-> TRUE,
          macros |-> StoreSet(StoreDel(ms, old_name), new_name,
                              [ms[old_name] EXCEPT !.tags = new_tags,
                                                   !.description = new_description])]

\* MacroManager.delete_macro(name)
delete_macro(ms, name) ==
    IF name \notin DOMAIN ms
    THEN [ret |-> FALSE, macros |-> ms]
    ELSE [ret |-> TRUE, macros |-> StoreDel(ms, name)]

\* MacroManagerDialog after __init__ and exec(): nothing loaded, the list
\* filled by _refresh_macro_list() with no current item, the buttons
\* enabled as Qt creates them
NewDialog ==
    [ visible |-> TRUE,
      current_macro |-> NoMacro,
      name_input |-> <<>>,
      description_input |-> <<>>,
      tags_editor |-> <<>>,
      original_name |-> <<>>,
      original_description |-> <<>>,
      original_tags |-> <<>>,
      unsaved_changes |-> FALSE,
      suppress_change_signals |-> FALSE,
      saving_in_progress |-> FALSE,
      list_current |-> NoMacro,           \* macro_list.currentItem(), by its name
      save_enabled |-> TRUE,           \* save_btn.isEnabled()
      delete_enabled |-> TRUE ]        \* delete_btn.isEnabled()

\* _has_actual_changes()
has_actual_changes(d) ==
    /\ d.current_macro # NoMacro
    /\ \/ Strip(d.name_input) # d.original_name
       \/ Strip(d.description_input) # d.original_description
       \/ Strip(d.tags_editor) # d.original_tags

\* _update_button_states()
update_button_states(d) ==
    [d EXCEPT !.delete_enabled = d.list_current # NoMacro,
              !.save_enabled = has_actual_changes(d) /\ Strip(d.name_input) # <<>>]

\* _on_editor_changed(), the slot of the three fields' textChanged
on_editor_changed(d) ==
    IF d.suppress_change_signals
    THEN d
    ELSE update_button_states([d EXCEPT !.unsaved_changes = has_actual_changes(d)])

\* _clear_editor()
clear_editor(d) ==
    update_button_states(
        [d EXCEPT !.current_macro = NoMacro,
                  !.name_input = <<>>,
                  !.description_input = <<>>,
                  !.tags_editor = <<>>,
                  !.original_name = <<>>,
                  !.original_description = <<>>,
                  !.original_tags = <<>>,
                  !.unsaved_changes = FALSE,
                  !.suppress_change_signals = FALSE])

\* _load_macro(macro_name) with the manager holding ms
load_macro(d, ms, macro_name) ==
    IF macro_name \notin DOMAIN ms
    THEN d
    ELSE update_button_states(
        [d EXCEPT !.current_macro = macro_name,
                  !.name_input = macro_name,
                  !.description_input = ms[macro_name].description,
                  !.tags_editor = ms[macro_name].tags,
                  !.original_name = macro_name,
                  !.original_description = ms[macro_name].description,
                  !.original_tags = ms[macro_name].tags,
                  !.unsaved_changes = FALSE,
                  !.suppress_change_signals = FALSE])

\* What a handler of the dialog works on: the manager's macros, the dialog,
\* whether the 'Unsaved Changes' question and a warning box were shown, and
\* how often the items of macro_list were deleted by clear()
World(ms, d) ==
    [macros |-> ms, d |-> d, prompted |-> FALSE, warned |-> FALSE, cleared |-> 0]

RECURSIVE on_macro_selected(_, _, _)
RECURSIVE refresh_macro_list(_, _)
RECURSIVE save_macro(_)

\* _on_macro_selected(current, previous), the slot of
\* macro_list.currentItemChanged: current is the name held by the item or
\* NoMacro, answer the button pressed if the question is asked.  An item that
\* clear() deleted while the question was handled raises RuntimeError.
on_macro_selected(w, current, answer) ==
    LET ask == /\ ~w.d.suppress_change_signals
               /\ ~w.d.saving_in_progress
               /\ has_actual_changes(w.d)
        w1 == IF ~ask THEN w
              ELSE IF answer = "Yes"
              THEN save_macro([w EXCEPT !.prompted = TRUE])
              ELSE [w EXCEPT !.prompted = TRUE,
                             !.d.unsaved_changes = FALSE,
                             !.d.current_macro = NoMacro]
    IN  IF w1.d.suppress_change_signals THEN w1
        ELSE IF current = NoMacro THEN [w1 EXCEPT !.d = clear_editor(@)]
        ELSE IF w1.cleared > w.cleared THEN [w1 EXCEPT !.d = clear_editor(@)]
        ELSE [w1 EXCEPT !.d = load_macro(@, w1.macros, current)]

\* _refresh_macro_list(), also the slot of macro_manager.macros_changed:
\* macro_list.clear() deletes the items and resets the current item,
\* emitting currentItemChanged(None, previous) when there was one; then the
\* list is filled again from get_all_macros()
refresh_macro_list(w, answer) ==
    LET w0 == [w EXCEPT !.cleared = @ + 1, !.d.list_current = NoMacro]
        w1 == IF w.d.list_current # NoMacro
              THEN on_macro_selected(w0, NoMacro, answer)
              ELSE w0
    IN  IF w1.d.current_macro # NoMacro /\ w1.d.current_macro \notin DOMAIN w1.macros
        THEN [w1 EXCEPT !.d = clear_editor(@)]
        ELSE w1

\* macro_list.setCurrentItem(it) for the item holding name
set_current_item(w, name) ==
    IF w.d.list_current = name
    THEN w
    ELSE on_macro_selected([w EXCEPT !.d.list_current = name], name, "No")

\* The finally clause of _save_macro()
save_finally(w) ==
    [w EXCEPT !.d.suppress_change_signals = FALSE, !.d.saving_in_progress = FALSE]

\* _save_macro().  update_macro emits macros_changed when it succeeds, which
\* runs _refresh_macro_list() before update_macro returns; no question is
\* asked while _saving_in_progress is set.
save_macro(w) ==
    IF w.d.current_macro = NoMacro THEN w
    ELSE
    LET name == Strip(w.d.name_input)
        desc == Strip(w.d.description_input)
        tags == Strip(w.d.tags_editor)
        u == update_macro(w.macros, w.d.current_macro, name, tags, desc)
        wa == [w EXCEPT !.d.saving_in_progress = TRUE,
                        !.d.suppress_change_signals = TRUE]
        wb == refresh_macro_list([wa EXCEPT !.macros = u.macros], "No")
        wc == [wb EXCEPT !.d.current_macro = name,
                         !.d.original_name = name,
                         !.d.original_description = desc,
                         !.d.original_tags = tags,
                         !.d.unsaved_changes = FALSE]
        wd == refresh_macro_list(wc, "No")
    IN  IF name = <<>> THEN [w EXCEPT !.warned = TRUE]
        ELSE IF u.ret THEN save_finally(set_current_item(wd, name))
        ELSE save_finally([wa EXCEPT !.warned = TRUE])

\* closeEvent(event)
close_event(w, answer) ==
    LET w1 == IF ~has_actual_changes(w.d) THEN w
              ELSE IF answer = "Yes" THEN save_macro([w EXCEPT !.prompted = TRUE])
              ELSE [w EXCEPT !.prompted = TRUE]
    IN  [w1 EXCEPT !.d.visible = FALSE]

\* _delete_macro() with rep the button pressed in the 'Delete Macro'
\* question.  delete_macro emits macros_changed, which runs
\* _refresh_macro_list() before it returns.
delete_selected(w, rep, answer) ==
    IF w.d.current_macro = NoMacro \/ rep # "Yes" THEN w
    ELSE
    LET r == delete_macro(w.macros, w.d.current_macro)
        w1 == IF r.ret
              THEN refresh_macro_list([w EXCEPT !.macros = r.macros], answer)
              ELSE w
        w2 == refresh_macro_list(w1, answer)
    IN  [w2 EXCEPT !.d = clear_editor(@)]

\* The keyword arguments Macro(**data) accepts
MacroFields ==
    {"name", "tags", "description", "created_date", "last_used", "use_count",
     "hotkey", "category"}

\* Macro.from_dict(data) returns a Macro: name and tags are given and no
\* key is unknown (anything else raises TypeError)
WellFormed(data) ==
    /\ {"name", "tags"} \subseteq DOMAIN data
    /\ DOMAIN data \subseteq MacroFields

\* Macro.from_dict(data) for such an entry: absent fields take the defaults
\* of the dataclass
from_dict(data) ==
    Macro(data.tags,
          IF "description" \in DOMAIN data THEN data.description ELSE <<>>,
          IF "use_count" \in DOMAIN data THEN data.use_count ELSE 0)

\* The body of the loop of import_macros that leaves a macro already stored
\* under the entry's name as it is
ImportEntryKeepExisting(st, data) ==
    IF ~WellFormed(data) THEN st
    ELSE IF data.name \in DOMAIN st.macros
    THEN [st EXCEPT !.overwritten_count = @ + 1]
    ELSE [st EXCEPT !.imported_count = @ + 1,
                    !.macros = StoreSet(@, data.name, from_dict(data))]

\* The body of the loop of import_macros for one entry of the file
ImportEntry(st, data) ==
    IF ~WellFormed(data) THEN st                       \* except Exception: continue
    ELSE IF data.name \in DOMAIN st.macros
    THEN [st EXCEPT !.overwritten_count = @ + 1,
                    !.macros = StoreSet(@, data.name, from_dict(data))]
    ELSE [st EXCEPT !.imported_count = @ + 1,
                    !.macros = StoreSet(@, data.name, from_dict(data))]

RECURSIVE ImportEntries(_, _, _)
\* The loop of import_macros from entry i of the file on
ImportEntries(st, entries, i) ==
    IF i > Len(entries) THEN st
    ELSE ImportEntries(ImportEntry(st, entries[i]), entries, i + 1)

\* MacroManager.import_macros(file_path): the value returned and self.macros
\* afterwards.  A file that cannot be opened or parsed makes it return False.
import_macros(ms, file) ==
    IF ~file.readable THEN [ret |-> FALSE, macros |-> ms]
    ELSE LET st == ImportEntries([macros |-> ms, imported_count |-> 0,
                                  overwritten_count |-> 0], file.entries, 1)
         IN  [ret |-> st.imported_count + st.overwritten_count > 0,
              macros |-> st.macros]

\* MacroManager.execute_macro(name): Macro.increment_usage()
execute_macro(ms, name) ==
    IF name \notin DOMAIN ms THEN ms
    ELSE [ms EXCEPT ![name].use_count = @ + 1]

----------------------------------------------------------------------------
(* Images and their tag files: load_image_from_path, show_image_by_index,  *)
(* load_tags_from_file, save_tags                                          *)

\* DESCRIPTION_SEPARATOR
DESCRIPTION_SEPARATOR ==
    <<"#", "#", "#", "D", "E", "S", "C", "R", "I", "P", "T", "I", "O", "N", "#", "#", "#">>

HIGH_RES_THRESHOLD == 4000000

ABSURD_RES_THRESHOLD == 16000000

\* A pathlib.Path, by the name without its extension and the extension
Path(stem, suffix) == [stem |-> stem, suffix |-> suffix]

\* None where a Path is expected
NoPath == Path("", "")

\* Path.with_suffix(".txt")
with_suffix_txt(path) == [path EXCEPT !.suffix = ".txt"]

\* A file that does not exist, and a file holding content
NoFile == [exists |-> FALSE, content |-> <<>>]

FileWith(content) == [exists |-> TRUE, content |-> content]

\* ', '.join(list)
RECURSIVE Join(_)
Join(list) ==
    IF list = <<>> THEN <<>>
    ELSE IF Len(list) = 1 THEN list[1]
    ELSE list[1] \o <<",", " ">> \o Join(Tail(list))

\* The content save_tags writes for the stripped tags and description
FileContent(tags, description) ==
    IF description # <<>>
    THEN tags \o <<"\n">> \o DESCRIPTION_SEPARATOR \o <<"\n">> \o description
    ELSE tags

\* ParseContent that splits at the last separator instead of the first
ParseContentAtLast(content) ==
    LET found == {p \in 0..Len(content) :
                     p + Len(DESCRIPTION_SEPARATOR) <= Len(content)
                     /\ SubSeq(content, p + 1, p + Len(DESCRIPTION_SEPARATOR))
                            = DESCRIPTION_SEPARATOR}
        p == CHOOSE q \in found : \A r \in found : r <= q
    IN  IF found # {}
        THEN [tags |-> Strip(SubSeq(content, 1, p)),
              description |-> Strip(SubSeq(content, p + Len(DESCRIPTION_SEPARATOR) + 1,
                                           Len(content)))]
        ELSE [tags |-> Strip(content), description |-> <<>>]

\* The tags and the description load_tags_from_file reads out of content
ParseContent(content) ==
    LET p == Find(content, DESCRIPTION_SEPARATOR)
    IN  IF p >= 0                                   \* DESCRIPTION_SEPARATOR in content
        THEN [tags |-> Strip(SubSeq(content, 1, p)),
              description |-> Strip(SubSeq(content, p + Len(DESCRIPTION_SEPARATOR) + 1,
                                           Len(content)))]
        ELSE [tags |-> Strip(content), description |-> <<>>]

\* on_text_cache_changed(), the slot of textChanged of both fields
on_text_cache_changed(st) ==
    IF st.current_image_path = NoPath THEN st
    ELSE [st EXCEPT !.text_cache =
              [p \in DOMAIN @ \cup {st.current_image_path} |->
                  IF p = st.current_image_path
                  THEN [tags |-> st.text, description |-> st.description]
                  ELSE @[p]]]

\* tag_input.setPlainText(t): the cursor goes to the start, textChanged is
\* emitted
set_tags(st, t) == on_text_cache_changed([st EXCEPT !.text = t, !.cursor_pos = 0])

\* description_input.setPlainText(d)
set_description(st, d) == on_text_cache_changed([st EXCEPT !.description = d])

\* The cursor of tag_input is moved to the end
cursor_to_end(st) == [st EXCEPT !.cursor_pos = Len(st.text)]

\* The fields now hold the text of the current image
Shown(st) == [st EXCEPT !.owner = st.current_image_path]

\* load_tags_from_file(); read_ok tells whether the tag file can be read
load_tags_from_file(st, read_ok) ==
    LET path == st.current_image_path
        txt_path == with_suffix_txt(path)
    IN  IF path = NoPath THEN st
        ELSE IF path \in DOMAIN st.text_cache
        THEN LET cached_data == st.text_cache[path]
             IN  cursor_to_end(Shown(
                     set_description(set_tags(st, cached_data.tags),
                                     cached_data.description)))
        ELSE IF st.files[txt_path].exists
        THEN IF read_ok
             THEN LET r == ParseContent(st.files[txt_path].content)
                  IN  cursor_to_end(Shown(
                          set_description(set_tags(st, r.tags), r.description)))
             ELSE st                                \* except Exception: return
        ELSE cursor_to_end(Shown(set_description(set_tags(st, <<>>), <<>>)))

\* A tag of the list, stripped, is not empty
NonBlank(tag) == Strip(tag) # <<>>

\* [tag.strip() for tag in text.split(',') if tag.strip()]
TagList(t) ==
    LET kept == SelectSeq(Split(t), NonBlank)
    IN  [i \in 1..Len(kept) |-> Strip(kept[i])]

\* _auto_add_resolution_tags(width, height)
auto_add_resolution_tags(st, width, height) ==
    LET tag_list == TagList(Strip(st.text))
        total_pixels == width * height
        new_tag == IF total_pixels >= ABSURD_RES_THRESHOLD
                   THEN <<"a", "b", "s", "u", "r", "d", " ",
                          "r", "e", "s", "o", "l", "u", "t", "i", "o", "n">>
                   ELSE IF total_pixels >= HIGH_RES_THRESHOLD
                   THEN <<"h", "i", "g", "h", " ", "r", "e", "s">>
                   ELSE <<>>
    IN  IF new_tag # <<>> /\ \A i \in 1..Len(tag_list) : Lower(tag_list[i]) # new_tag
        THEN set_tags(st, Join(Append(tag_list, new_tag)))
        ELSE st

\* save_tags that writes the file whatever the fields hold
save_tags_always_write(st, write_ok) ==
    IF st.current_image_path = NoPath THEN st
    ELSE IF ~write_ok THEN [st EXCEPT !.io_error = TRUE]
    ELSE [st EXCEPT !.files[with_suffix_txt(st.current_image_path)] =
              FileWith(FileContent(Strip(st.text), Strip(st.description)))]

\* save_tags(); write_ok tells whether the tag file can be written or
\* deleted (an error leaves it as it is)
save_tags(st, write_ok) ==
    LET tags == Strip(st.text)
        description == Strip(st.description)
        txt_path == with_suffix_txt(st.current_image_path)
    IN  IF st.current_image_path = NoPath THEN st
        ELSE IF tags = <<>> /\ description = <<>>
        THEN IF ~st.files[txt_path].exists THEN st
             ELSE IF write_ok THEN [st EXCEPT !.files[txt_path] = NoFile]
             ELSE [st EXCEPT !.io_error = TRUE]
        ELSE IF write_ok
        THEN [st EXCEPT !.files[txt_path] = FileWith(FileContent(tags, description))]
        ELSE [st EXCEPT !.io_error = TRUE]

\* None where an index into image_list is expected
NoIndex == -1

\* The folders looked at, as build_image_list sorts their images: two images
\* with different names, or two that share their name up to the extension
Folders ==
    { <<Path("a", ".jpg"), Path("b", ".png")>>,
      <<Path("a", ".jpg"), Path("a", ".png")>> }

\* A path that names no file
Missing == Path("c", ".png")

\* Width and height QImageReader reports: a.png has four megapixels, the
\* others are small
Width(path) == IF path = Path("a", ".png") THEN 2000 ELSE 100

Height(path) == IF path = Path("a", ".png") THEN 2000 ELSE 100

\* list.index(path), 0-based; None when the path is not in the list
IndexOf(list, path) ==
    IF \E i \in 1..Len(list) : list[i] = path
    THEN (CHOOSE i \in 1..Len(list) : list[i] = path /\ \A j \in 1..(i - 1) : list[j] # path) - 1
    ELSE NoIndex

\* show_image_by_index that saves the fields only after the new image's tags
\* were loaded into them
show_image_by_index_save_late(st, index, image_ok, read_ok, write_ok) ==
    LET i == Max(0, Min(index, Len(st.image_list) - 1))
        path == st.image_list[i + 1]
        loaded == auto_add_resolution_tags(
                      load_tags_from_file([st EXCEPT !.current_image_path = path,
                                                     !.current_index = i], read_ok),
                      Width(path), Height(path))
    IN  IF st.image_list = <<>> THEN st
        ELSE IF ~image_ok THEN st
        ELSE IF st.current_image_path # NoPath /\ st.current_image_path # path
        THEN save_tags(loaded, write_ok)
        ELSE loaded

\* show_image_by_index(index); image_ok tells whether QImageReader can read
\* the image
show_image_by_index(st, index, image_ok, read_ok, write_ok) ==
    LET i == Max(0, Min(index, Len(st.image_list) - 1))
        path == st.image_list[i + 1]
        saved == IF st.current_image_path # NoPath /\ st.current_image_path # path
                 THEN save_tags(st, write_ok)
                 ELSE st
    IN  IF st.image_list = <<>> THEN st
        ELSE IF ~image_ok THEN saved                 \* image.isNull(): return
        ELSE auto_add_resolution_tags(
                 load_tags_from_file([saved EXCEPT !.current_image_path = path,
                                                   !.current_index = i], read_ok),
                 Width(path), Height(path))

\* show_next_image()
show_next_image(st, image_ok, read_ok, write_ok) ==
    IF st.current_index = NoIndex \/ st.image_list = <<>> THEN st
    ELSE IF st.current_index < Len(st.image_list) - 1
    THEN show_image_by_index(st, st.current_index + 1, image_ok, read_ok, write_ok)
    ELSE st

\* show_prev_image()
show_prev_image(st, image_ok, read_ok, write_ok) ==
    IF st.current_index = NoIndex \/ st.image_list = <<>> THEN st
    ELSE IF st.current_index > 0
    THEN show_image_by_index(st, st.current_index - 1, image_ok, read_ok, write_ok)
    ELSE st

\* load_image_from_path(file_path): a path that does not exist raises
\* FileNotFoundError, which is caught and changes nothing
load_image_from_path(st, path, image_ok, read_ok) ==
    LET st1 == [st EXCEPT !.current_image_path = path, !.image_list = st.folder]
    IN  IF path = Missing THEN st
        ELSE IF ~image_ok THEN st1                   \* image.isNull(): return
        ELSE auto_add_resolution_tags(
                 load_tags_from_file([st1 EXCEPT !.current_index = IndexOf(st.folder, path)],
                                     read_ok),
                 Width(path), Height(path))


----------------------------------------------------------------------------
(* The debounce timer and the suggestion list                              *)

MIN_SUGGESTIONS == 1

\* hide_suggestions(): suggestions_list.clear()
hide_suggestions(st) == [st EXCEPT !.suggestions_list = <<>>, !.current_row = -1]

\* show_suggestions(suggestions): the list is filled and its first row made
\* current
show_suggestions(st, s) ==
    IF s = <<>> THEN hide_suggestions(st)
    ELSE [st EXCEPT !.suggestions_list = s, !.current_row = 0]

\* on_text_changed(), the slot of tag_input.textChanged
on_text_changed(st) ==
    LET current_part == get_current_tag_part(st.text, st.cursor_pos).ret
    IN  IF current_part = <<>> \/ Len(Strip(current_part)) < MIN_SUGGESTIONS
        THEN hide_suggestions(st)
        ELSE [st EXCEPT !.timer_active = TRUE]         \* suggestion_timer.start()

\* update_suggestions(), the slot of suggestion_timer.timeout
update_suggestions(st, ix) ==
    LET current_part == get_current_tag_part(st.text, st.cursor_pos).ret
    IN  IF Len(current_part) < MIN_SUGGESTIONS THEN hide_suggestions(st)
        ELSE LET r == find_suggestions(ix, st.tag_cache, current_part)
             IN  show_suggestions([st EXCEPT !.tag_cache = r.cache,
                                             !.query = current_part,
                                             !.suggestions = r.ret,
                                             !.cache_hit = r.hit], r.ret)

\* select_suggestion(item) with the widgets: setPlainText puts the cursor at
\* the start and emits textChanged, then the cursor is set
select_item(st, original_tag) ==
    IF original_tag = <<>> THEN st                     \* if not original_tag: return
    ELSE LET r == select_suggestion(st.text, st.cursor_pos, original_tag)
             changed == on_text_changed([st EXCEPT !.text = r.new_text, !.cursor_pos = 0])
         IN  [changed EXCEPT !.cursor_pos = r.new_cursor_pos,
                             !.entry = [text |-> st.text, cursor_pos |-> st.cursor_pos,
                                        tag |-> original_tag]]

\* suggestions_list.count() > 0 and suggestions_list.currentItem()
HasCurrentItem(st) == Len(st.suggestions_list) > 0 /\ st.current_row >= 0

\* on_tab_pressed()
on_tab_pressed(st) ==
    IF HasCurrentItem(st) THEN select_item(st, st.suggestions_list[st.current_row + 1])
    ELSE st                                            \* focusNextChild()

\* on_enter_pressed()
on_enter_pressed(st) ==
    IF HasCurrentItem(st) THEN select_item(st, st.suggestions_list[st.current_row + 1])
    ELSE st

----------------------------------------------------------------------------
(* The state machine                                                       *)

Index == [all_tags |-> all_tags, all_tags_lower |-> all_tags_lower,
          tag_frequencies |-> tag_frequencies]

\* No select_suggestion call has been made on the buffer as it is
NoEntry == [text |-> <<>>, cursor_pos |-> 0, tag |-> <<>>]

\* _setup_data() with the tag source c on disk
Loaded(c) ==
    /\ csv = c
    /\ LET r == setup_data(c)
       IN  /\ tag_db = r.tag_db
           /\ all_tags = r.all_tags
           /\ all_tags_lower = r.all_tags_lower
           /\ tag_frequencies = r.tag_frequencies

\* The fields as __init__ leaves them: empty cache, empty tag field
Fresh ==
    /\ tag_cache = <<>>
    /\ op = "init"
    /\ query = <<>>
    /\ suggestions = <<>>
    /\ cache_hit = FALSE
    /\ text = <<>>
    /\ cursor_pos = 0
    /\ entry = NoEntry

\* No conversion is under way
NoConversion ==
    /\ conv_tag = <<>>
    /\ conv_display = <<>>
    /\ conv_storage = <<>>

\* What the last handler showed and started from
NoDialogs ==
    [prompted |-> FALSE, warned |-> FALSE, answer |-> None, target |-> NoMacro,
     was_edited |-> FALSE]

\* No import_macros call has been made on the macros as they are
NoImport == [file |-> [readable |-> FALSE, entries |-> <<>>], ret |-> FALSE, before |-> <<>>]

\* No macro dialog is open
NoMacros ==
    /\ macros = <<>>
    /\ dlg = [NewDialog EXCEPT !.visible = FALSE]
    /\ ui = NoDialogs
    /\ imp = NoImport

\* The tag files next to the folder's images: a.txt holds the tag a, no
\* other one exists
TagFiles(images) ==
    [t \in {with_suffix_txt(images[i]) : i \in 1..Len(images)} |->
        IF t.stem = "a" THEN FileWith(<<"a">>) ELSE NoFile]

\* __init__: no image is loaded
Unopened ==
    /\ current_image_path = NoPath
    /\ current_index = NoIndex
    /\ image_list = <<>>
    /\ description_input = <<>>
    /\ text_cache = <<>>
    /\ owner = NoPath
    /\ io_error = FALSE

\* No image is loaded and no folder is looked at
NoImage ==
    /\ Unopened
    /\ folder = <<>>
    /\ files = <<>>

\* __init__: empty cache, then _setup_data()
\* The debounce timer is not running and the suggestion list is empty
NoTimer ==
    /\ timer_active = FALSE
    /\ suggestions_list = <<>>
    /\ current_row = -1

Init ==
    /\ \E c \in Sources : Loaded(c)
    /\ Fresh
    /\ NoConversion
    /\ NoMacros
    /\ NoImage
    /\ NoTimer

\* A call of find_suggestions(qry)
FindSuggestions(qry) ==
    LET r == find_suggestions(Index, tag_cache, qry)
    IN  /\ op' = "find_suggestions"
        /\ query' = qry
        /\ suggestions' = r.ret
        /\ tag_cache' = r.cache
        /\ cache_hit' = r.hit
        /\ UNCHANGED <<csv, tag_db, all_tags, all_tags_lower, tag_frequencies>>
        /\ UNCHANGED <<editVars, convVars, macroVars, imageVars, timerVars>>

Next == \E qry \in Queries : FindSuggestions(qry)

Spec == Init /\ [][Next]_vars

\* __init__ with the tag source of the editing scenarios
InitEdit ==
    /\ Loaded(EditSource)
    /\ Fresh
    /\ NoConversion
    /\ NoMacros
    /\ NoImage
    /\ NoTimer

\* The user edits the buffer in the tag field: it now reads t, cursor at c
EditText(t, c) ==
    /\ text' = t
    /\ cursor_pos' = c
    /\ entry' = NoEntry
    /\ op' = "edit"
    /\ UNCHANGED <<indexVars, rankVars, convVars, macroVars, imageVars, timerVars>>

\* select_suggestion(item), the item holding original_tag
SelectSuggestion(original_tag) ==
    /\ original_tag # <<>>               \* if not original_tag: return
    /\ Len(text) <= MaxBuffer
    /\ LET r == select_suggestion(text, cursor_pos, original_tag)
       IN  /\ text' = r.new_text
           /\ cursor_pos' = r.new_cursor_pos
    /\ entry' = [text |-> text, cursor_pos |-> cursor_pos, tag |-> original_tag]
    /\ op' = "select_suggestion"
    /\ UNCHANGED <<indexVars, rankVars, convVars, macroVars, imageVars, timerVars>>

\* What the items of the suggestion list hold: tags of the index
ItemTags == {all_tags[i] : i \in 1..Len(all_tags)} \cup {<<>>}

NextEdit ==
    \/ \E t \in TextPool : \E c \in 0..Len(t) : EditText(t, c)
    \/ \E original_tag \in ItemTags : SelectSuggestion(original_tag)

SpecEdit == InitEdit /\ [][NextEdit]_vars

(* Typing, the debounce timer and the keys of the tag field                *)

\* The tag source of the typing scenarios: ab, a_b and oc
TimerFile ==
    << <<<<"a", "b">>, <<"0">>, <<"9">>, <<>>>>,
       <<<<"a", "_", "b">>, <<"0">>, <<"5">>, <<>>>>,
       <<<<"o", "c">>, <<"0">>, <<"3">>, <<>>>> >>

TimerSource == [exists |-> TRUE, readable |-> TRUE, lines |-> TimerFile]

\* The buffers the user types while suggestions come and go
TypedTexts ==
    { <<>>, <<"a">>, <<"a", ",", "o">> }

\* __init__ with the tag source of the typing scenarios
InitTimer ==
    /\ Loaded(TimerSource)
    /\ Fresh
    /\ NoConversion
    /\ NoMacros
    /\ NoImage
    /\ NoTimer

\* The tag field, the timer and the list as the handlers see them
TagField ==
    [ text |-> text,
      cursor_pos |-> cursor_pos,
      entry |-> NoEntry,
      tag_cache |-> tag_cache,
      query |-> query,
      suggestions |-> suggestions,
      cache_hit |-> cache_hit,
      timer_active |-> timer_active,
      suggestions_list |-> suggestions_list,
      current_row |-> current_row ]

\* The state a handler of the tag field leaves, st being what it ended with
Left(name, st) ==
    /\ text' = st.text
    /\ cursor_pos' = st.cursor_pos
    /\ entry' = st.entry
    /\ tag_cache' = st.tag_cache
    /\ query' = st.query
    /\ suggestions' = st.suggestions
    /\ cache_hit' = st.cache_hit
    /\ timer_active' = st.timer_active
    /\ suggestions_list' = st.suggestions_list
    /\ current_row' = st.current_row
    /\ op' = name
    /\ UNCHANGED <<indexVars, convVars, macroVars, imageVars>>

\* The user changes the buffer to t, the cursor at c: textChanged
TypeText(t, c) ==
    /\ t # text
    /\ Left("on_text_changed", on_text_changed([TagField EXCEPT !.text = t, !.cursor_pos = c]))

\* The user moves the cursor with the arrow keys or the mouse: no slot runs
MoveCursor(c) ==
    /\ c # cursor_pos
    /\ c <= Len(text)
    /\ Left("move_cursor", [TagField EXCEPT !.cursor_pos = c])

\* The single-shot timer fires DEBOUNCE_MS after its last start
TimerFires ==
    /\ timer_active
    /\ Left("update_suggestions",
            update_suggestions([TagField EXCEPT !.timer_active = FALSE], Index))

\* Tab in the tag field
TabPressed ==
    /\ Len(text) <= MaxText
    /\ Left("on_tab_pressed", on_tab_pressed(TagField))

\* Return or Enter in the tag field
EnterPressed ==
    /\ Len(text) <= MaxText
    /\ Left("on_enter_pressed", on_enter_pressed(TagField))

NextTimer ==
    \/ \E t \in TypedTexts : \E c \in 0..Len(t) : TypeText(t, c)
    \/ \E c \in 0..MaxCursor : MoveCursor(c)
    \/ TimerFires
    \/ TabPressed
    \/ EnterPressed

SpecTimer == InitTimer /\ [][NextTimer]_vars

\* A tag in storage form is about to be converted
InitConvert ==
    /\ Loaded(EditSource)
    /\ Fresh
    /\ conv_tag \in StorageTags
    /\ conv_display = <<>>
    /\ conv_storage = <<>>
    /\ NoMacros
    /\ NoImage
    /\ NoTimer

\* convert_tag_for_display(conv_tag)
ConvertForDisplay ==
    /\ op = "init"
    /\ conv_display' = convert_tag_for_display(conv_tag)
    /\ op' = "convert_tag_for_display"
    /\ UNCHANGED <<indexVars, rankVars, editVars, conv_tag, conv_storage, macroVars, imageVars, timerVars>>

\* convert_tag_for_storage(conv_display)
ConvertForStorage ==
    /\ op = "convert_tag_for_display"
    /\ conv_storage' = convert_tag_for_storage(conv_display)
    /\ op' = "convert_tag_for_storage"
    /\ UNCHANGED <<indexVars, rankVars, editVars, conv_tag, conv_display, macroVars, imageVars, timerVars>>

NextConvert == ConvertForDisplay \/ ConvertForStorage

SpecConvert == InitConvert /\ [][NextConvert]_vars

----------------------------------------------------------------------------
(* The macro manager dialog as a state machine                             *)

\* The macros the manager read from macros.json: two plain ones
PlainStore ==
    (<<"a">> :> Macro(<<"a">>, <<>>, 0)) @@ (<<"b">> :> Macro(<<"b">>, <<>>, 0))

\* ... or the same two, the tags of the first written with a trailing space
PaddedStore ==
    (<<"a">> :> Macro(<<"a", " ">>, <<>>, 0)) @@ (<<"b">> :> Macro(<<"b">>, <<>>, 0))

Stores == {PlainStore, PaddedStore}

\* What the user types into the name, description and tags fields
NameTexts == {<<>>, <<"a">>, <<"b">>}

DescriptionTexts == {<<>>, <<"a">>}

TagsTexts == {<<"a">>, <<"b">>, <<"a", " ">>}

\* The buttons of a question box
Answers == {"Yes", "No"}

\* The loaded macro's fields differ, up to surrounding whitespace, from what
\* was loaded or last saved
Edited(d) ==
    /\ d.current_macro # NoMacro
    /\ <<Strip(d.name_input), Strip(d.description_input), Strip(d.tags_editor)>>
         # <<Strip(d.original_name), Strip(d.original_description),
             Strip(d.original_tags)>>

\* MacroManager.__init__ reads the stored macros, then the dialog is opened
InitMacro ==
    /\ Loaded(EditSource)
    /\ Fresh
    /\ NoConversion
    /\ macros \in Stores
    /\ dlg = NewDialog
    /\ ui = NoDialogs
    /\ imp = NoImport
    /\ NoImage
    /\ NoTimer

\* The state a handler of the dialog leaves, w being the world it ended in
Handled(name, w, answer, target) ==
    /\ macros' = w.macros
    /\ dlg' = w.d
    /\ ui' = [prompted |-> w.prompted,
              warned |-> w.warned,
              answer |-> IF w.prompted THEN answer ELSE None,
              target |-> target,
              was_edited |-> Edited(dlg)]
    /\ op' = name
    /\ UNCHANGED <<indexVars, rankVars, editVars, convVars, imp, imageVars, timerVars>>

\* The user clicks the item of macro name in the list: it becomes the
\* current item and currentItemChanged is emitted
SelectMacro(name, answer) ==
    /\ dlg.visible
    /\ name \in DOMAIN macros
    /\ name # dlg.list_current
    /\ Handled("select_macro",
               on_macro_selected(World(macros, [dlg EXCEPT !.list_current = name]),
                                 name, answer),
               answer, name)

\* The user changes the name field to v
EditName(v) ==
    /\ dlg.visible
    /\ v # dlg.name_input
    /\ Handled("edit_name",
               World(macros, on_editor_changed([dlg EXCEPT !.name_input = v])),
               None, NoMacro)

\* The user changes the description field to v
EditDescription(v) ==
    /\ dlg.visible
    /\ v # dlg.description_input
    /\ Handled("edit_description",
               World(macros, on_editor_changed([dlg EXCEPT !.description_input = v])),
               None, NoMacro)

\* The user changes the tags editor to v
EditTags(v) ==
    /\ dlg.visible
    /\ v # dlg.tags_editor
    /\ Handled("edit_tags",
               World(macros, on_editor_changed([dlg EXCEPT !.tags_editor = v])),
               None, NoMacro)

\* The user presses Save
SaveClicked ==
    /\ dlg.visible
    /\ dlg.save_enabled
    /\ Handled("save", save_macro(World(macros, dlg)), None, NoMacro)

\* The user presses Delete and answers the 'Delete Macro' question with rep
DeleteClicked(rep, answer) ==
    /\ dlg.visible
    /\ dlg.delete_enabled
    /\ Handled("delete", delete_selected(World(macros, dlg), rep, answer),
               answer, NoMacro)

\* The user closes the dialog
CloseDialog(answer) ==
    /\ dlg.visible
    /\ Handled("close", close_event(World(macros, dlg), answer), answer, NoMacro)

NextMacro ==
    \/ \E name \in DOMAIN macros : \E answer \in Answers : SelectMacro(name, answer)
    \/ \E v \in NameTexts : EditName(v)
    \/ \E v \in DescriptionTexts : EditDescription(v)
    \/ \E v \in TagsTexts : EditTags(v)
    \/ SaveClicked
    \/ \E rep \in Answers : \E answer \in Answers : DeleteClicked(rep, answer)
    \/ \E answer \in Answers : CloseDialog(answer)

SpecMacro == InitMacro /\ [][NextMacro]_vars

----------------------------------------------------------------------------
(* Importing macros                                                        *)

\* Most entries in an imported file
MaxEntries == 2

\* Most uses of a macro counted
MaxUses == 2

\* Entries of the 'macros' list of an imported file: macro a in full, macro
\* a with name and tags only, a macro not stored yet, an entry without tags
\* and an entry with a key Macro does not know
Entries ==
    { [name |-> <<"a">>, tags |-> <<"b">>, description |-> <<"a">>, use_count |-> 5],
      [name |-> <<"a">>, tags |-> <<"a", " ">>],
      [name |-> <<"c">>, tags |-> <<"a">>, use_count |-> 1],
      [name |-> <<"b">>],
      [name |-> <<"b">>, tags |-> <<"a">>, colour |-> <<"a">>] }

\* The files handed to import_macros: readable ones with up to MaxEntries
\* entries, and one that cannot be read or parsed
ImportFiles ==
    {[readable |-> TRUE, entries |-> es] :
        es \in UNION {[1..n -> Entries] : n \in 0..MaxEntries}}
    \cup {[readable |-> FALSE, entries |-> <<>>]}

\* MacroManager.__init__ with the stored macros read, no dialog open
InitImport ==
    /\ Loaded(EditSource)
    /\ Fresh
    /\ NoConversion
    /\ macros = PlainStore
    /\ dlg = [NewDialog EXCEPT !.visible = FALSE]
    /\ ui = NoDialogs
    /\ imp = NoImport
    /\ NoImage
    /\ NoTimer

\* A call of import_macros(file)
ImportMacros(file) ==
    /\ LET r == import_macros(macros, file)
       IN  /\ macros' = r.macros
           /\ imp' = [file |-> file, ret |-> r.ret, before |-> macros]
    /\ op' = "import_macros"
    /\ UNCHANGED <<indexVars, rankVars, editVars, convVars, dlg, ui, imageVars, timerVars>>

\* A call of execute_macro(name) from the dropdown
ExecuteMacro(name) ==
    /\ name \in DOMAIN macros
    /\ macros[name].use_count < MaxUses
    /\ macros' = execute_macro(macros, name)
    /\ imp' = NoImport
    /\ op' = "execute_macro"
    /\ UNCHANGED <<indexVars, rankVars, editVars, convVars, dlg, ui, imageVars, timerVars>>

NextImport ==
    \/ \E file \in ImportFiles : ImportMacros(file)
    \/ \E name \in DOMAIN macros : ExecuteMacro(name)

SpecImport == InitImport /\ [][NextImport]_vars

----------------------------------------------------------------------------
(* Images and tag files as a state machine                                 *)

\* What the user types into the tag field and the description field
TagFieldTexts == {<<>>, <<"a", " ">>}

DescriptionFieldTexts == {<<>>, <<"d">>}

\* The image handed to load_image_from_path by the file dialog, a drop or
\* the command line
Paths == UNION {{f[i] : i \in 1..Len(f)} : f \in Folders} \cup {Missing}

\* The paths of the folder on disk, and one that does not exist
Openable == {folder[i] : i \in 1..Len(folder)} \cup {Missing}

\* The fields and files a handler of the image works on
ImageState ==
    [ current_image_path |-> current_image_path,
      current_index |-> current_index,
      image_list |-> image_list,
      text |-> text,
      cursor_pos |-> cursor_pos,
      description |-> description_input,
      text_cache |-> text_cache,
      folder |-> folder,
      files |-> files,
      owner |-> owner,
      io_error |-> FALSE ]

\* __init__ with one of the folders on disk
InitImage ==
    /\ Loaded(EditSource)
    /\ Fresh
    /\ NoConversion
    /\ NoMacros
    /\ Unopened
    /\ folder \in Folders
    /\ files = TagFiles(folder)
    /\ NoTimer

\* The state a handler of the image leaves, st being what it ended with
Done(name, st) ==
    /\ current_image_path' = st.current_image_path
    /\ current_index' = st.current_index
    /\ image_list' = st.image_list
    /\ text' = st.text
    /\ cursor_pos' = st.cursor_pos
    /\ description_input' = st.description
    /\ text_cache' = st.text_cache
    /\ files' = st.files
    /\ owner' = st.owner
    /\ io_error' = st.io_error
    /\ entry' = NoEntry
    /\ op' = name
    /\ UNCHANGED <<indexVars, rankVars, convVars, macroVars, folder, timerVars>>

\* An image is opened, dropped on the window or given on the command line
LoadImageFromPath(path, image_ok, read_ok) ==
    /\ path \in Openable
    /\ Done("load_image_from_path", load_image_from_path(ImageState, path, image_ok, read_ok))

\* Right, F2, the right button or the mouse wheel
ShowNextImage(image_ok, read_ok, write_ok) ==
    /\ current_index # NoIndex
    /\ Done("show_image_by_index", show_next_image(ImageState, image_ok, read_ok, write_ok))

\* Left, F1, the left button or the mouse wheel
ShowPrevImage(image_ok, read_ok, write_ok) ==
    /\ current_index # NoIndex
    /\ Done("show_image_by_index", show_prev_image(ImageState, image_ok, read_ok, write_ok))

\* The user changes the tag field to t, the cursor at its end
EditTagInput(t) ==
    /\ t # text
    /\ Done("on_text_cache_changed",
            on_text_cache_changed([ImageState EXCEPT !.text = t, !.cursor_pos = Len(t)]))

\* The user changes the description field to d
EditDescriptionInput(d) ==
    /\ d # description_input
    /\ Done("on_text_cache_changed", on_text_cache_changed([ImageState EXCEPT !.description = d]))

\* Ctrl+S, F9 or the Save button
SaveTags(write_ok) ==
    /\ current_image_path # NoPath
    /\ Done("save_tags", save_tags(ImageState, write_ok))

NextImage ==
    \/ \E path \in Paths : \E image_ok, read_ok \in BOOLEAN :
           LoadImageFromPath(path, image_ok, read_ok)
    \/ \E image_ok, read_ok, write_ok \in BOOLEAN : ShowNextImage(image_ok, read_ok, write_ok)
    \/ \E image_ok, read_ok, write_ok \in BOOLEAN : ShowPrevImage(image_ok, read_ok, write_ok)
    \/ \E t \in TagFieldTexts : EditTagInput(t)
    \/ \E d \in DescriptionFieldTexts : EditDescriptionInput(d)
    \/ \E write_ok \in BOOLEAN : SaveTags(write_ok)

SpecImage == InitImage /\ [][NextImage]_vars

----------------------------------------------------------------------------
(* Saving the fields and reading them back in a new session                *)

MaxField == 3

\* The texts of at most n characters a field can hold: a letter and line breaks
RECURSIVE FieldTexts(_)
FieldTexts(n) ==
    IF n = 0 THEN {<<>>}
    ELSE LET shorter == FieldTexts(n - 1)
         IN  shorter \cup {Append(t, c) : t \in shorter, c \in {"a", "\n"}}

\* What the tag field can hold: short texts, and texts with the separator
TripTags ==
    FieldTexts(MaxField)
        \cup {DESCRIPTION_SEPARATOR, <<"a">> \o DESCRIPTION_SEPARATOR \o <<"a">>}

\* What the description field can hold
TripDescriptions == FieldTexts(MaxField) \cup {DESCRIPTION_SEPARATOR}

\* The folder of the session: two images with different names
TwoImages == <<Path("a", ".jpg"), Path("b", ".png")>>

\* An image is shown and the user has filled the two fields
InitRoundTrip ==
    /\ Loaded(EditSource)
    /\ tag_cache = <<>>
    /\ op = "init"
    /\ query = <<>>
    /\ suggestions = <<>>
    /\ cache_hit = FALSE
    /\ entry = NoEntry
    /\ NoConversion
    /\ NoMacros
    /\ folder = TwoImages
    /\ files = [t \in {with_suffix_txt(TwoImages[i]) : i \in 1..Len(TwoImages)} |-> NoFile]
    /\ current_image_path = TwoImages[1]
    /\ current_index = 0
    /\ image_list = TwoImages
    /\ text \in TripTags
    /\ cursor_pos = Len(text)
    /\ description_input \in TripDescriptions
    /\ text_cache = (current_image_path :> [tags |-> text, description |-> description_input])
    /\ owner = current_image_path
    /\ io_error = FALSE
    /\ NoTimer

\* The program is started again with the image on the command line:
\* __init__, then load_image_from_path
Reopen(path, image_ok, read_ok) ==
    /\ path \in Openable
    /\ Done("reopen",
            load_image_from_path(
                [ImageState EXCEPT !.current_image_path = NoPath,
                                   !.current_index = NoIndex,
                                   !.image_list = <<>>,
                                   !.text = <<>>,
                                   !.cursor_pos = 0,
                                   !.description = <<>>,
                                   !.text_cache = <<>>,
                                   !.owner = NoPath],
                path, image_ok, read_ok))

NextRoundTrip ==
    \/ \E write_ok \in BOOLEAN : SaveTags(write_ok)
    \/ \E path \in Paths : \E image_ok, read_ok \in BOOLEAN : Reopen(path, image_ok, read_ok)

SpecRoundTrip == InitRoundTrip /\ [][NextRoundTrip]_vars

----------------------------------------------------------------------------
(* Properties                                                              *)

Called == op = "find_suggestions"

\* The query of the last call, lowercased and trimmed
q_last == Strip(Lower(query))

Positions(s) == 1..Len(s)

\* q is a contiguous substring of t
Contains(t, q) ==
    \E p \in 0..(Len(t) - Len(q)) : \A k \in 1..Len(q) : t[p + k] = q[k]

Blank(s) == \A i \in 1..Len(s) : s[i] \in Whitespace

Weight(tag) == IF tag \in DOMAIN tag_frequencies THEN tag_frequencies[tag] ELSE 0

\* The list the tiering, sorting, dedup and truncation give when the whole
\* index is scanned
FullScanResult ==
    IF q_last = <<>> \/ all_tags = <<>> THEN <<>> ELSE Rank(Index, q_last, FALSE)

\* C1: the early exits of the scan (MAX_SUGGESTIONS*8 candidates collected, or
\* 2 exact matches found) never change the outcome: the list returned equals
\* the list obtained by scanning the whole index.
C1_ShortCircuitKeepsResult == Called => suggestions = FullScanResult

\* C2: every tag of the index whose lowercase form equals the normalized query
\* is returned, and stands before every returned tag that is not an exact match.
C2_ExactMatchReturnedFirst ==
    Called =>
        \A i \in Positions(all_tags) :
            Lower(all_tags[i]) = q_last =>
                \E p \in Positions(suggestions) :
                    /\ suggestions[p] = all_tags[i]
                    /\ \A r \in Positions(suggestions) :
                           Lower(suggestions[r]) # q_last => p < r

\* C3: two returned tags of the same match tier are ordered by weight, the
\* heavier first; on the index {safe: 2204259, saddle: 5000, santa_hat: 50000}
\* the query "sa" gives [safe, santa_hat, saddle].
C3_SameTierHeavierFirst ==
    Called =>
        /\ \A a, b \in Positions(suggestions) :
               ( /\ TierOf(Lower(suggestions[a]), q_last)
                      = TierOf(Lower(suggestions[b]), q_last)
                 /\ Weight(suggestions[a]) > Weight(suggestions[b]) )
               => a < b
        /\ (csv.lines = ExampleFile /\ q_last = <<"s", "a">>) =>
               suggestions = << <<"s", "a", "f", "e">>,
                                <<"s", "a", "n", "t", "a", "_", "h", "a", "t">>,
                                <<"s", "a", "d", "d", "l", "e">> >>

\* C3 witness: a call returned two prefix matches of different weight.
C3_Witness ==
    /\ Called
    /\ \E a, b \in Positions(suggestions) :
           /\ a < b
           /\ TierOf(Lower(suggestions[a]), q_last) = "prefix"
           /\ TierOf(Lower(suggestions[b]), q_last) = "prefix"
           /\ Weight(suggestions[a]) > Weight(suggestions[b])

\* Some occurrence of q in t comes right after a separator
AfterSeparatorSomewhere(t, q) ==
    \E p \in Occurrences(t, q) : p > 0 /\ t[p] \in WordSeparators

\* C4: a matching tag that is neither Exact nor Prefix is in the Word-boundary
\* tier if and only if the query occurs in it at some position right after one
\* of '_', '-', ' ', ':', and in the Generic-substring tier only when no
\* occurrence is so preceded.
C4_WordBoundaryAtAnyOccurrence ==
    Called =>
        \A i \in Positions(all_tags_lower) :
            LET t == all_tags_lower[i]
            IN  (q_last # <<>> /\ Contains(t, q_last) /\ t # q_last /\ ~StartsWith(t, q_last)) =>
                    /\ TierOf(t, q_last) = "word_start" <=> AfterSeparatorSomewhere(t, q_last)
                    /\ TierOf(t, q_last) = "substring" <=> ~AfterSeparatorSomewhere(t, q_last)

\* C5: every returned tag contains the normalized query as a contiguous
\* substring of its lowercase form, and the result is empty when no tag of the
\* index contains it.
C5_OnlyLiteralMatches ==
    Called =>
        /\ \A p \in Positions(suggestions) : Contains(Lower(suggestions[p]), q_last)
        /\ (\A i \in Positions(all_tags) : ~Contains(Lower(all_tags[i]), q_last))
               => suggestions = <<>>

\* C5 witness: a call returned tags while the index also holds a tag that
\* shares a character with the query without containing it.
C5_Witness ==
    /\ Called
    /\ suggestions # <<>>
    /\ \E i \in Positions(all_tags) :
           /\ ~Contains(Lower(all_tags[i]), q_last)
           /\ \E k \in Positions(all_tags[i]) : Lower(all_tags[i])[k] = q_last[1]

\* Two queries that differ only in letter case or surrounding whitespace
SameQuery(a, b) == Strip(Lower(a)) = Strip(Lower(b))

\* C6: the list returned for a query equals the list a call with an empty
\* tag_cache returns, and a further call with the same query, or with one that
\* differs only in letter case or surrounding whitespace, returns that list
\* again.
C6_CacheTransparent ==
    Called =>
        /\ suggestions = find_suggestions(Index, <<>>, query).ret
        /\ \A q2 \in Queries :
               SameQuery(q2, query) =>
                   find_suggestions(Index, tag_cache, q2).ret = suggestions

\* C6 witness: a non-empty list was served from the cache for a query written
\* with other case and whitespace than its cache key.
C6_Witness ==
    /\ Called
    /\ cache_hit
    /\ suggestions # <<>>
    /\ query # q_last

\* C7: an empty or whitespace-only query, or an empty index, gives the empty
\* list.
C7_EmptyInputsGiveEmptyList ==
    Called => ((Blank(query) \/ all_tags = <<>>) => suggestions = <<>>)

\* C7 witness: a whitespace-only query was answered on an index that holds a
\* tag with a space in it.
C7_Witness ==
    /\ Called
    /\ query = <<" ">>
    /\ \E i \in Positions(all_tags) : Contains(all_tags[i], <<" ">>)
    /\ suggestions = <<>>

NoDuplicates(s) == \A a, b \in Positions(s) : s[a] = s[b] => a = b

PrimaryOf(row) == Strip(row[1])

\* The names in the alternates column of a row
AltNames(row) ==
    LET parts == Split(Strip(row[4]))
    IN  {Strip(parts[k]) : k \in Positions(parts)} \ {<<>>}

\* C9: every string in the primary column of some row carries the weight of a
\* primary row, whether a row listing it as an alternate comes before or after.
C9_PrimaryWeightWins ==
    \A i \in Positions(tag_db) :
        PrimaryOf(tag_db[i]) # <<>> =>
            /\ PrimaryOf(tag_db[i]) \in DOMAIN tag_frequencies
            /\ \E j \in Positions(tag_db) :
                   /\ PrimaryOf(tag_db[j]) = PrimaryOf(tag_db[i])
                   /\ tag_frequencies[PrimaryOf(tag_db[i])] = Frequency(tag_db[j])

\* C9 witness: a tag is an alternate of an earlier row and the primary tag of
\* a later row whose weight differs from the alternate-derived one.
C9_Witness ==
    \E i, j \in Positions(tag_db) :
        /\ i < j
        /\ PrimaryOf(tag_db[j]) \in AltNames(tag_db[i])
        /\ PrimaryOf(tag_db[j]) # PrimaryOf(tag_db[i])
        /\ Frequency(tag_db[j]) # Max(1, Frequency(tag_db[i]) \div 2)
        /\ tag_frequencies[PrimaryOf(tag_db[j])] = Frequency(tag_db[j])

\* The names that occur in alternates columns only
AltOnlyNames ==
    UNION {AltNames(tag_db[i]) : i \in Positions(tag_db)}
        \ {PrimaryOf(tag_db[i]) : i \in Positions(tag_db)}

\* The first row that lists the name as an alternate
FirstListing(name) ==
    CHOOSE i \in Positions(tag_db) :
        /\ name \in AltNames(tag_db[i])
        /\ \A j \in 1..(i - 1) : name \notin AltNames(tag_db[j])

\* C10: a name that occurs only in alternates columns has weight
\* max(1, w div 2), w being the weight (0 if non-numeric) of the first row that
\* lists it; later rows listing it do not change it.
C10_AlternateWeight ==
    \A name \in AltOnlyNames :
        /\ name \in DOMAIN tag_frequencies
        /\ LET w == Frequency(tag_db[FirstListing(name)])
           IN  tag_frequencies[name] = IF w \div 2 >= 1 THEN w \div 2 ELSE 1

\* C10 witness: an alternate-only name is listed by two rows of different
\* weight, and one listed by a row of non-numeric weight weighs 1.
C10_Witness ==
    /\ \E name \in AltOnlyNames :
           \E j \in Positions(tag_db) :
               /\ j > FirstListing(name)
               /\ name \in AltNames(tag_db[j])
               /\ Frequency(tag_db[j]) \div 2 > Frequency(tag_db[FirstListing(name)]) \div 2
    /\ \E name \in AltOnlyNames :
           /\ ~IsDigit(tag_db[FirstListing(name)][3])
           /\ tag_frequencies[name] = 1

----------------------------------------------------------------------------
(* Properties of the loaded index                                          *)

\* C11: the index holds at most one entry per case-folded tag: no two entries
\* of all_tags have the same lowercase form, so at most one entry is an exact
\* match for a query.
C11_OneEntryPerFoldedTag ==
    \A i, j \in Positions(all_tags) :
        Lower(all_tags[i]) = Lower(all_tags[j]) => i = j

\* s <= t as Python compares strings
StrLessEq(s, t) == ~TupleLess(Codes(t), Codes(s))

\* C12: all_tags is sorted by (-weight, lowercase(tag)): of two adjacent
\* entries the first is heavier, or they weigh the same and the lowercase form
\* of the first is not greater than that of the second.
C12_SortedByWeightThenName ==
    \A i \in 1..(Len(all_tags) - 1) :
        LET a == all_tags[i]
            b == all_tags[i + 1]
        IN  \/ Weight(a) > Weight(b)
            \/ Weight(a) = Weight(b) /\ StrLessEq(Lower(a), Lower(b))

\* C12 witness: the index holds a heavier tag before a lighter one, and two
\* tags of equal weight that the rows gave in the other order.
C12_Witness ==
    /\ \E i \in 1..(Len(all_tags) - 1) : Weight(all_tags[i]) > Weight(all_tags[i + 1])
    /\ \E i \in 1..(Len(all_tags) - 1) :
           LET m == ProcessRows(EmptyDict, tag_db, 1, Len(tag_db))
               at(t) == CHOOSE k \in 1..Len(m.order) : m.order[k] = t
           IN  /\ Weight(all_tags[i]) = Weight(all_tags[i + 1])
               /\ Lower(all_tags[i]) # Lower(all_tags[i + 1])
               /\ at(all_tags[i]) > at(all_tags[i + 1])

HasThreeFields(line) == Len(line) >= 3

\* The index the source gives once its lines of fewer than 3 fields are left out
IndexWithoutShortLines ==
    setup_data([csv EXCEPT !.lines = SelectSeq(csv.lines, HasThreeFields)])

\* C13: a line with fewer than 3 fields contributes no tag: the index is the
\* one the remaining lines give.
C13_ShortLinesContributeNothing ==
    /\ all_tags = IndexWithoutShortLines.all_tags
    /\ tag_frequencies = IndexWithoutShortLines.tag_frequencies

\* C14: after _setup_data either the index is fully built (all_tags,
\* all_tags_lower and tag_frequencies describe the same tags, position by
\* position) or, the source being missing or unreadable, all three are empty.
C14_AllOrNothing ==
    /\ (~csv.exists \/ ~csv.readable) =>
           (all_tags = <<>> /\ all_tags_lower = <<>> /\ tag_frequencies = <<>>)
    /\ Len(all_tags_lower) = Len(all_tags)
    /\ \A i \in Positions(all_tags) : all_tags_lower[i] = Lower(all_tags[i])
    /\ {all_tags[i] : i \in Positions(all_tags)} = DOMAIN tag_frequencies
    /\ NoDuplicates(all_tags)

\* C14 witness: the source exists but cannot be read, the index is empty and
\* a query was answered from it.
C14_Witness ==
    /\ csv.exists
    /\ ~csv.readable
    /\ all_tags = <<>>
    /\ all_tags_lower = <<>>
    /\ tag_frequencies = <<>>
    /\ Called
    /\ query # <<>>

----------------------------------------------------------------------------
(* Properties of fragment resolution and insertion                         *)

\* The 0-based positions of t that hold one of the characters cs
PositionsOf(t, cs) == {p \in 0..(Len(t) - 1) : t[p + 1] \in cs}

Greatest(S) == CHOOSE p \in S : \A r \in S : p >= r

Least(S) == CHOOSE p \in S : \A r \in S : p <= r

\* C15: the fragment get_current_tag_part resolves spans [start, end) with
\* start <= cursor <= end and contains no comma; start is 0 or the position
\* just after the nearest comma left of the cursor, end is the length of the
\* buffer or the position of the nearest comma at or right of the cursor.
C15_FragmentBounds ==
    LET r == get_current_tag_part(text, cursor_pos)
        commasLeft  == {p \in PositionsOf(text, {","}) : p < cursor_pos}
        commasRight == {p \in PositionsOf(text, {","}) : p >= cursor_pos}
    IN  /\ r.start <= cursor_pos
        /\ cursor_pos <= r.end
        /\ r.fragment = SubSeq(text, r.start + 1, r.end)
        /\ \A i \in Positions(r.fragment) : r.fragment[i] # ","
        /\ r.start = IF commasLeft = {} THEN 0 ELSE Greatest(commasLeft) + 1
        /\ r.end = IF commasRight = {} THEN Len(text) ELSE Least(commasRight)

\* C15 witness: the user left the cursor inside a non-empty fragment that has
\* a comma on either side.
C15_Witness ==
    /\ op = "edit"
    /\ \E p \in PositionsOf(text, {","}) : p < cursor_pos
    /\ \E p \in PositionsOf(text, {","}) : p >= cursor_pos
    /\ get_current_tag_part(text, cursor_pos).ret # <<>>

Selected == op = "select_suggestion"

\* C16: the span select_suggestion replaces is the span of the fragment
\* get_current_tag_part resolves for the same buffer and cursor; with the
\* cursor at the end of the buffer 'oc on', accepting 'oc only' replaces the
\* whole of 'oc on'.
C16_ReplacesResolvedFragment ==
    Selected =>
        LET f == get_current_tag_part(entry.text, entry.cursor_pos)
            r == select_suggestion(entry.text, entry.cursor_pos, entry.tag)
        IN  /\ r.start = f.start
            /\ r.end = f.end
            /\ ( /\ entry.text = <<"o", "c", " ", "o", "n">>
                 /\ entry.cursor_pos = 5
                 /\ entry.tag = <<"o", "c", " ", "o", "n", "l", "y">> )
               => text = <<"o", "c", " ", "o", "n", "l", "y", " ">>

\* C17: after select_suggestion the fragment resolved at the new cursor
\* position is empty.
C17_EmptyFragmentAfterInsertion ==
    Selected => get_current_tag_part(text, cursor_pos).ret = <<>>

\* The span between the nearest ',' or ' ' left of the cursor and the nearest
\* one at or right of it
SpanStart(t, c) ==
    LET l == {p \in PositionsOf(t, {",", " "}) : p < c}
    IN  IF l = {} THEN 0 ELSE Greatest(l) + 1

SpanEnd(t, c) ==
    LET r == {p \in PositionsOf(t, {",", " "}) : p >= c}
    IN  IF r = {} THEN Len(t) ELSE Least(r)

\* The whitespace s starts with
LeadingRun(s) ==
    SubSeq(s, 1, Cardinality({i \in Positions(s) : \A j \in 1..i : s[j] \in Whitespace}))

\* The parts of the buffer select_suggestion started from
Before == SubSeq(entry.text, 1, SpanStart(entry.text, entry.cursor_pos))

Replaced ==
    SubSeq(entry.text, SpanStart(entry.text, entry.cursor_pos) + 1,
           SpanEnd(entry.text, entry.cursor_pos))

After ==
    SubSeq(entry.text, SpanEnd(entry.text, entry.cursor_pos) + 1, Len(entry.text))

C19_SeparatorRule ==
    Selected =>
        LET head == Before \o LeadingRun(Replaced) \o convert_tag_for_display(entry.tag)
        IN  IF Blank(After) THEN text = head \o <<" ">> \o After
            ELSE IF After[1] \notin Whitespace THEN text = head \o <<" ">> \o After
            ELSE text = head \o After

\* C19 witness: a tag was inserted before a space that other text follows, and
\* no separator was added.
C19_Witness ==
    /\ Selected
    /\ ~Blank(After)
    /\ After[1] \in Whitespace
    /\ Len(text) = Len(Before) + Len(LeadingRun(Replaced)) + Len(entry.tag) + Len(After)

Converted == op = "convert_tag_for_storage"

\* C20 as stated: convert_tag_for_storage(convert_tag_for_display(t)) = t for
\* every tag t of lowercase letters, digits, '_' and '+'.
C20_RoundTrip == Converted => conv_storage = conv_tag

\* C20 as amended: the round trip gives t back when t is made of lowercase
\* letters, digits and '_'; every '+' of t comes back as '_'.
C20_RoundTripUpToPlus ==
    Converted =>
        /\ conv_storage = Replace(conv_tag, "+", "_")
        /\ (\A i \in Positions(conv_tag) : conv_tag[i] # "+") => conv_storage = conv_tag

\* C20 witness: a tag with a letter, a digit and '_' went through both
\* conversions and came back unchanged.
C20_Witness ==
    /\ Converted
    /\ \E i, j, k \in Positions(conv_tag) :
           conv_tag[i] = "_" /\ conv_tag[j] = "a" /\ conv_tag[k] = "1"
    /\ conv_display # conv_tag
    /\ conv_storage = conv_tag

\* C21: accepting rainbow_dash in the buffer 'safe, ' with the cursor at 6
\* gives the buffer 'safe, Rainbow Dash ' (the display form with each word
\* capitalised, then the separator of the space-delimited mode) or
\* 'safe, Rainbow Dash, ', with the cursor at the end of the buffer.
C21_RainbowDashScenario ==
    ( /\ Selected
      /\ entry.text = <<"s", "a", "f", "e", ",", " ">>
      /\ entry.cursor_pos = 6
      /\ entry.tag = <<"r", "a", "i", "n", "b", "o", "w", "_", "d", "a", "s", "h">> )
    => /\ \/ text = <<"s", "a", "f", "e", ",", " ",
                      "R", "a", "i", "n", "b", "o", "w", " ", "D", "a", "s", "h", " ">>
          \/ text = <<"s", "a", "f", "e", ",", " ",
                      "R", "a", "i", "n", "b", "o", "w", " ", "D", "a", "s", "h", ",", " ">>
       /\ cursor_pos = Len(text)

----------------------------------------------------------------------------
(* Properties of the macro manager dialog                                  *)

\* C22: selecting another macro or closing the dialog shows the 'Unsaved
\* Changes' question if and only if the user has edited the name, the
\* description or the tags of the loaded macro since it was loaded or last
\* saved; in particular never for a stored macro that was only loaded.
C22_PromptIffEdited ==
    op \in {"select_macro", "close"} => (ui.prompted <=> ui.was_edited)

\* The list selection went from a macro with unsaved edits to ui.target and
\* the question was answered
Switched ==
    /\ op = "select_macro"
    /\ ui.was_edited
    /\ ui.prompted

\* C23: after the selection went from a macro with unsaved edits to macro B
\* and the question was answered with Yes or with No, current_macro is B and
\* the editor shows B's stored name, description and tags.
C23_EditorShowsNewSelection ==
    Switched =>
        /\ dlg.current_macro = ui.target
        /\ ui.target \in DOMAIN macros
        /\ dlg.name_input = ui.target
        /\ dlg.description_input = macros[ui.target].description
        /\ dlg.tags_editor = macros[ui.target].tags

\* _save_macro() runs in this step: Save was pressed, or the question asked
\* on selecting or closing was answered with Yes
SaveRuns ==
    /\ dlg.current_macro # NoMacro
    /\ \/ op' = "save"
       \/ op' \in {"select_macro", "close"} /\ ui'.prompted /\ ui'.answer = "Yes"

\* The name in the name field is empty, or is the name of another macro
BadName ==
    \/ Strip(dlg.name_input) = <<>>
    \/ /\ Strip(dlg.name_input) # dlg.current_macro
       /\ Strip(dlg.name_input) \in DOMAIN macros

\* C24: saving a macro with an empty name, or under the name of another
\* existing macro, shows a warning and leaves the manager's macros exactly
\* as they were.
C24_RejectedSaveChangesNothing ==
    [][(SaveRuns /\ BadName) => (ui'.warned /\ macros' = macros)]_vars

\* C24 witness: Save was pressed on macro a renamed to b while b exists, and
\* the warning was shown.
C24_Witness ==
    /\ op = "save"
    /\ ui.warned
    /\ dlg.current_macro = <<"a">>
    /\ Strip(dlg.name_input) = <<"b">>
    /\ <<"b">> \in DOMAIN macros

----------------------------------------------------------------------------
(* Properties of import_macros                                             *)

\* import_macros has just returned
Imported == op = "import_macros"

\* The positions of the file's well-formed entries
WellFormedAt == {i \in Positions(imp.file.entries) : WellFormed(imp.file.entries[i])}

\* The positions of the file's well-formed entries of macro n
EntriesOf(n) == {i \in WellFormedAt : imp.file.entries[i].name = n}

\* The names the file's entries carry
NamedInFile ==
    {imp.file.entries[i].name : i \in {j \in Positions(imp.file.entries) :
                                          "name" \in DOMAIN imp.file.entries[j]}}

\* Macros no well-formed entry names are as before the call
OthersUnchanged ==
    /\ \A n \in DOMAIN imp.before \ NamedInFile :
           n \in DOMAIN macros /\ macros[n] = imp.before[n]
    /\ \A n \in DOMAIN macros :
           EntriesOf(n) = {} => n \in DOMAIN imp.before /\ macros[n] = imp.before[n]

\* C25: after import_macros returns, every well-formed entry of the file is
\* stored under its name with the imported tags, description and use_count,
\* replacing an existing macro of that name, and macros not named in the
\* file are unchanged.
C25_EveryEntryStored ==
    Imported =>
        /\ \A i \in WellFormedAt :
               /\ imp.file.entries[i].name \in DOMAIN macros
               /\ macros[imp.file.entries[i].name] = from_dict(imp.file.entries[i])
        /\ OthersUnchanged

\* C25, amended: after import_macros returns, for every name the last
\* well-formed entry of that name in the file is stored under it with the
\* imported tags, description and use_count, replacing an existing macro of
\* that name, and macros no well-formed entry names are unchanged.
C25_LastEntryStored ==
    Imported =>
        /\ \A i \in WellFormedAt :
               (\A j \in EntriesOf(imp.file.entries[i].name) : j <= i)
               => /\ imp.file.entries[i].name \in DOMAIN macros
                  /\ macros[imp.file.entries[i].name] = from_dict(imp.file.entries[i])
        /\ OthersUnchanged

\* C25 witness: a file with an entry that cannot be read and a well-formed
\* entry of a stored macro was imported, and the stored macro was replaced.
C25_Witness ==
    /\ Imported
    /\ imp.ret
    /\ WellFormedAt # Positions(imp.file.entries)
    /\ \E i \in WellFormedAt :
           /\ imp.file.entries[i].name \in DOMAIN imp.before
           /\ imp.before[imp.file.entries[i].name] # from_dict(imp.file.entries[i])
           /\ macros[imp.file.entries[i].name] = from_dict(imp.file.entries[i])

----------------------------------------------------------------------------
(* Properties of the tag files                                             *)

\* The tag file of an image path
TxtOf(path) == with_suffix_txt(path)

\* What the fields hold, trimmed, is not empty
FieldsFilled == Strip(text) # <<>> \/ Strip(description_input) # <<>>

\* The file a save of the fields leaves: the trimmed tags and description,
\* or no file when both are empty
SavedFields ==
    IF FieldsFilled
    THEN FileWith(FileContent(Strip(text), Strip(description_input)))
    ELSE NoFile

\* This step is a show_image_by_index that switches to another image, its
\* writes succeeding
SwitchStep ==
    /\ op' = "show_image_by_index"
    /\ current_image_path # NoPath
    /\ current_image_path' # current_image_path
    /\ ~io_error'

\* The step leaves the fields as they were shown in the previous image's file
PreviousSaved == files'[TxtOf(current_image_path)] = SavedFields

\* The step leaves the new image's file alone
NewUntouched == files'[TxtOf(current_image_path')] = files[TxtOf(current_image_path')]

C27_FileExistsIffFieldsFilled ==
    (op = "save_tags" /\ ~io_error /\ current_image_path # NoPath) =>
        /\ files[TxtOf(current_image_path)].exists <=> FieldsFilled
        /\ files[TxtOf(current_image_path)].exists
               => files[TxtOf(current_image_path)].content # <<>>

\* C27 witness: save_tags ran with both fields cleared for the image whose
\* tag file existed, and the file is gone.
C27_Witness ==
    /\ op = "save_tags"
    /\ ~io_error
    /\ current_image_path = Path("a", ".jpg")
    /\ text = <<>>
    /\ description_input = <<>>
    /\ ~files[TxtOf(current_image_path)].exists

\* This step reads back, in a new session and without a cache entry, the
\* file save_tags has just written for the fields
ReadBackStep ==
    /\ op = "save_tags"
    /\ ~io_error
    /\ FieldsFilled
    /\ op' = "reopen"
    /\ current_image_path' = current_image_path
    /\ owner' = current_image_path

\* The fields come back as they were saved
SameFields == text' = Strip(text) /\ description_input' = Strip(description_input)

\* C28: for all trimmed tags and description that are not both empty, the
\* file written by save_tags, read back by load_tags_from_file without a
\* cache entry, yields exactly the same tags and the same description (an
\* empty one when none was saved), multi-line descriptions included.
C28_RoundTrip ==
    [][ReadBackStep => SameFields]_vars

\* C28, amended: the same for all trimmed tags that do not contain
\* DESCRIPTION_SEPARATOR.
C28_RoundTripWithoutSeparatorInTags ==
    [][(ReadBackStep /\ Find(Strip(text), DESCRIPTION_SEPARATOR) < 0) => SameFields]_vars

\* C28 witness: tags and a description of two lines were read back from the
\* file of the image, where the separator stands between them.
C28_Witness ==
    /\ op = "reopen"
    /\ owner = current_image_path
    /\ text = <<"a">>
    /\ description_input = <<"a", "\n", "a">>
    /\ files[TxtOf(current_image_path)] =
           FileWith(<<"a", "\n">> \o DESCRIPTION_SEPARATOR \o <<"\n", "a", "\n", "a">>)

----------------------------------------------------------------------------
(* Properties of the suggestion list                                       *)

\* Tab or Enter has just inserted the current item of the list
Accepted == op \in {"on_tab_pressed", "on_enter_pressed"} /\ entry # NoEntry

\* C29: whenever a suggestion is accepted with Tab or Enter, the list it is
\* taken from was computed by find_suggestions for the fragment that was
\* under the cursor at that moment, whatever text changes, cursor moves,
\* firings of the debounce timer and key presses came before.
C29_ListIsForFragmentUnderCursor ==
    Accepted => query = get_current_tag_part(entry.text, entry.cursor_pos).ret

\* C30: whatever loads, switches and edits happened, failing loads included,
\* the text in the tag and description fields is the text of the image
\* named by current_image_path.
C30_FieldsBelongToCurrentImage ==
    current_image_path # NoPath => owner = current_image_path

====
